---- MODULE Spec2Model ----
(***************************************************************************)
(* Model of openquake/commonlib/logictree.py: the source-model logic tree  *)
(* (construction level by level, full enumeration, seeded sampling, the    *)
(* tabular export/import) and the GSIM logic tree (construction with       *)
(* composite per-IMT weights).                                             *)
(*                                                                         *)
(* Conventions.                                                            *)
(*  - A float weight is a fixed-point number: the integer w stands for     *)
(*    w / WOne.  A product of k weights is kept exactly, as the rational   *)
(*    [n |-> product, d |-> WOne^k]; floating-point rounding (of the order *)
(*    of 1e-16) is not modelled.  PRECISION is one fixed-point unit: the   *)
(*    tolerance of the code scaled to the grid, so that a branch-set can   *)
(*    be off 1.0 by less than, exactly, or more than the tolerance.        *)
(*  - Python None is 0 where an object reference is expected and the       *)
(*    string "None" where a string is expected.                            *)
(*  - A BranchSet object is its index in bsets (creation order); Branch    *)
(*    objects are the records of branches (the dict branch_id -> Branch,   *)
(*    in insertion order), referred to by branch id.                       *)
(*  - An XML branching level is a record node, drawn by the parsing action *)
(*    from a bounded set of nodes.                                         *)
(***************************************************************************)
EXTENDS Integers, Sequences, FiniteSets, TLC

(***************************************************************************)
(* Bounds of the model.                                                    *)
(***************************************************************************)
MaxLevels == 3
MaxBranches == 2
MaxApply == 2
MaxSeed == 1
MaxSamples == 2
MaxCalls == 3
MaxGsimLevels == 2
MaxGsimBranches == 2

(***************************************************************************)
(* Fixed point.                                                            *)
(***************************************************************************)
WOne == 20
PRECISION == 1

Abs(x) == IF x < 0 THEN -x ELSE x

RECURSIVE Pow(_, _)
Pow(b, k) == IF k = 0 THEN 1 ELSE b * Pow(b, k - 1)

RECURSIVE SumSeq(_)
SumSeq(s) == IF s = <<>> THEN 0 ELSE s[1] + SumSeq(Tail(s))

Range(s) == {s[i] : i \in 1..Len(s)}

None == "None"

(***************************************************************************)
(* The source-model files a logic tree may name (the file system that      *)
(* collect_source_model_data scans with the three regular expressions).    *)
(***************************************************************************)
SourceModelFiles == <<"sm1.xml", "sm2.xml", "sm3.xml">>
ExtendModelFiles == <<"ext1.xml", "ext2.xml", "ext3.xml">>

FileData(fname) ==
  CASE fname = "sm1.xml" ->
         [trts |-> {"Active"}, ids |-> <<"s1", "s2">>, types |-> {"pointSource"}]
    [] fname = "sm2.xml" ->
         [trts |-> {"Active", "Stable"}, ids |-> <<"s1", "s3">>,
          types |-> {"areaSource", "simpleFaultSource"}]
    [] fname = "sm3.xml" ->
         [trts |-> {"Stable"}, ids |-> <<"s4">>, types |-> {"pointSource"}]
    [] fname = "ext1.xml" ->
         [trts |-> {"Active"}, ids |-> <<"s5">>, types |-> {"pointSource"}]
    [] fname = "ext2.xml" ->
         [trts |-> {"Active"}, ids |-> <<"s1">>, types |-> {"areaSource"}]
    [] OTHER ->
         [trts |-> {"Stable"}, ids |-> <<"s5", "s6">>, types |-> {"pointSource"}]

\* the uncertaintyModel texts of the numeric kinds, and their parsed values
\* (in tenths)
NumberTexts == <<"0.2", "-0.2", "0.0">>

NumberOf(text) ==
  CASE text = "0.2" -> 2
    [] text = "-0.2" -> 0 - 2
    [] OTHER -> 0

FileKinds == {"sourceModel", "extendModel"}

\* An uncertainty value is a string or a float: [isnum, text, num], text
\* being "" for a float and num being 0 for a string.
StrValue(text) == [isnum |-> FALSE, text |-> text, num |-> 0]
NumValue(n) == [isnum |-> TRUE, text |-> "", num |-> n]

\* lt.parse_uncertainty: the file kinds keep the text, the numeric kinds
\* convert it to a float
parse_uncertainty(utype, text) ==
  IF utype \in FileKinds THEN StrValue(text) ELSE NumValue(NumberOf(text))

\* str(value), as stored in the uvalue column (hdf5.vstr)
ValueText(value) ==
  IF ~value.isnum THEN value.text
  ELSE CASE value.num = 2 -> "0.2"
         [] value.num = 0 - 2 -> "-0.2"
         [] OTHER -> "0.0"

(***************************************************************************)
(* Branch ids.  The ids of a tree that parses are the first ids of         *)
(* BranchIdOrder (every other tree is one of these up to renaming); "b1"   *)
(* is a substring of "b11", which Python's `in` on strings sees.           *)
(***************************************************************************)
BranchIdOrder == <<"b1", "b11", "b2", "b3">>
BranchIds == Range(BranchIdOrder)

\* Python: a in b, for two branch ids
IsSubstring(a, b) == a = b \/ (a = "b1" /\ b = "b11")

\* the elements of the set S of branch ids, as a sequence in BranchIdOrder
RECURSIVE InOrder(_, _)
InOrder(S, i) ==
  IF i > Len(BranchIdOrder) THEN <<>>
  ELSE (IF BranchIdOrder[i] \in S THEN <<BranchIdOrder[i]>> ELSE <<>>)
       \o InOrder(S, i + 1)

(***************************************************************************)
(* State.                                                                  *)
(***************************************************************************)
VARIABLES
  phase,                 \* "parsing", "constructed", "failed", "hung", "off"
  error,                 \* the message of the error that ended construction
  depth,                 \* the number of branching levels parsed
  node,                  \* the branching level parse_branchset was given last
  branches,              \* self.branches, in insertion order
  bsets,                 \* the BranchSet objects, in creation order
  bsetdict,              \* self.bsetdict, in insertion order
  previous_branches,     \* self.previous_branches
  root_branchset,        \* self.root_branchset (0: None)
  num_paths,             \* self.num_paths
  tectonic_region_types, \* self.tectonic_region_types
  source_types,          \* self.source_types
  source_ids,            \* self.source_ids, branch id -> list of source ids
  num_samples,           \* self.num_samples
  seed,                  \* self.seed
  rng,                   \* the state of numpy's global generator
  out,                   \* what the last operation on the tree returned
  ref,                   \* what the first operation on the tree returned
  calls,                 \* the number of operations made on the tree
  h5,                    \* the export of the tree: what __toh5__ returned
  copy,                  \* the tree __fromh5__ filled from the export
  sgroups,               \* what apply_uncertainties returned or raised last
  tmap,                  \* what taxonomy_mapping returned or raised last
  threads,               \* the calls of sample_path running at the same time
  gphase,                \* GSIM tree: "off", "parsing", "constructed", "failed"
  gerror,                \* the message of the error that ended its construction
  gargs,                 \* trts: the sorted tectonic_region_types argument
  gdepth,                \* the number of branching levels parsed
  gnode,                 \* the branch-set _build_trts_branches read last
  gbranches,             \* branches, then self.branches: the BranchTuples
  gvalues,               \* self.values, trt -> gsims, in insertion order
  gbsids,                \* branchsetids
  gtrts,                 \* the list trts of _build_trts_branches
  bs_id_by_trt,          \* self.bs_id_by_trt, in insertion order
  gtree,                 \* the tree reduce or collapse returned last
  gout                   \* what the last operation on a GSIM tree returned

treevars == <<branches, bsets, bsetdict, previous_branches, root_branchset,
              num_paths, tectonic_region_types, source_types, source_ids>>
\* the state outside the two trees
xvars == <<tmap, threads>>

smvars == <<phase, error, depth, node, treevars, num_samples, seed, rng, out,
            ref, calls, h5, copy, sgroups, xvars>>
gvars == <<gphase, gerror, gargs, gdepth, gnode, gbranches, gvalues, gbsids,
           gtrts, bs_id_by_trt, gtree, gout>>

(***************************************************************************)
(* Branch and BranchSet.                                                   *)
(***************************************************************************)
\* Branch.__init__
Branch(bs_id, branch_id, weight, value) ==
  [bs_id |-> bs_id, branch_id |-> branch_id, weight |-> weight,
   value |-> value, bset |-> 0]

\* BranchSet.__init__
BranchSet(uncertainty_type, filters) ==
  [branches |-> <<>>, uncertainty_type |-> uncertainty_type,
   filters |-> filters]

NoFilters == [k \in {} |-> None]
NoNode == [branchSetID |-> None, uncertaintyType |-> None,
           filters |-> NoFilters, applyToBranches |-> <<>>,
           branches |-> <<>>]
NoOut == [op |-> None]
NoH5 == [array |-> <<>>, attrs |-> <<>>, num_samples |-> 0]
NoCopy == [branches |-> <<>>, bsets |-> <<>>, root_branchset |-> 0,
           num_samples |-> 0]
\* the threads that call sample_path on the one tree
Threads == {"t1", "t2"}

\* a thread before its call: pc is "idle", then "seed" (sample is about to
\* call numpy.random.seed), "choice" (about to call numpy.random.choice) or
\* "done" (sample_path returned)
NoCall == [pc |-> "idle", seed |-> 0, branchset |-> 0, branches |-> <<>>]

NoMapping == [filename |-> "", taxonomies |-> <<>>, error |-> "",
              missing |-> {}, arr |-> <<>>, lst |-> <<>>, reads |-> <<>>]
NoApplied == [ltpath |-> <<>>, fname |-> None, error |-> "", common |-> {},
              src_groups |-> <<>>]

\* branch_id in self.branches
Defined(brs, branch_id) == \E i \in 1..Len(brs) : brs[i].branch_id = branch_id

\* self.branches[branch_id]
BranchOf(brs, branch_id) ==
  brs[CHOOSE i \in 1..Len(brs) : brs[i].branch_id = branch_id]

\* branch.bset = bset, for the branches whose id is in ids
SetChild(brs, ids, bset) ==
  [i \in 1..Len(brs) |->
     IF brs[i].branch_id \in ids THEN [brs[i] EXCEPT !.bset = bset]
     ELSE brs[i]]

(***************************************************************************)
(* SourceModelLogicTree: construction.                                     *)
(***************************************************************************)
FILTERS == <<"applyToTectonicRegionType", "applyToSources",
             "applyToSourceType">>

Has(filters, key) == key \in DOMAIN filters

\* the test cnt == 0 left out: every source id passes
NotDefinedNone(ids, sids) == <<>>

\* the source ids of the filter that no scanned source model has (cnt == 0)
NotDefined(ids, sids) ==
  SelectSeq(ids, LAMBDA source_id :
                   \A b \in DOMAIN sids : source_id \notin Range(sids[b]))

\* SourceModelLogicTree.validate_filters: the message of the error raised,
\* "" when none is
validate_filters(nd, uncertainty_type, filters, trts, stypes, sids) ==
  IF uncertainty_type = "sourceModel" /\ DOMAIN filters # {}
  THEN "filters are not allowed on source model uncertainty"
  ELSE IF Cardinality(DOMAIN filters) > 1
  THEN "only one filter is allowed per branchset"
  ELSE IF Has(filters, "applyToTectonicRegionType")
          /\ filters["applyToTectonicRegionType"] \notin trts
  THEN "source models don't define sources of tectonic region type '"
       \o filters["applyToTectonicRegionType"] \o "'"
  ELSE IF uncertainty_type \in {"abGRAbsolute", "maxMagGRAbsolute",
                                "simpleFaultGeometryAbsolute",
                                "complexFaultGeometryAbsolute"}
          /\ (DOMAIN filters # {"applyToSources"}
              \/ Len(filters["applyToSources"]) # 1)
  THEN "must define 'applyToSources' with only one source id"
  ELSE IF uncertainty_type \in {"simpleFaultDipRelative",
                                "simpleFaultDipAbsolute"}
          /\ ~Has(filters, "applyToSources")
          /\ ~Has(filters, "applyToSourceType")
  THEN "must define either 'applyToSources' or 'applyToSourceType'"
  ELSE IF Has(filters, "applyToSourceType")
          /\ filters["applyToSourceType"] \notin stypes
  THEN "source models don't define sources of type '"
       \o filters["applyToSourceType"] \o "'"
  ELSE IF Has(filters, "applyToSources")
          /\ Cardinality(DOMAIN sids) > 1 /\ nd.applyToBranches = <<>>
  THEN "applyToBranch must be specified together with applyToSources"
  ELSE IF Has(filters, "applyToSources")
          /\ NotDefined(filters["applyToSources"], sids) # <<>>
  THEN "source with id '" \o NotDefined(filters["applyToSources"], sids)[1]
       \o "' is not defined in source models"
  ELSE ""

\* SourceModelLogicTree.parse_filters: applyToSources is split into a list
\* (the attribute is held as the list of its words, so nothing changes)
parse_filters(nd, uncertainty_type, filters) == filters

\* the checks of validate_branchset without the one on gmpeModel
validate_branchset_lax(d, uncertainty_type) ==
  IF d = 0
  THEN IF uncertainty_type # "sourceModel"
       THEN "first branchset must define an uncertainty of type sourceModel"
       ELSE ""
  ELSE IF uncertainty_type = "sourceModel"
       THEN "uncertainty of type sourceModel can be defined on first branchset only"
       ELSE ""

\* SourceModelLogicTree.validate_branchset
validate_branchset(d, uncertainty_type) ==
  IF d = 0
  THEN IF uncertainty_type # "sourceModel"
       THEN "first branchset must define an uncertainty of type sourceModel"
       ELSE ""
  ELSE IF uncertainty_type = "sourceModel"
       THEN "uncertainty of type sourceModel can be defined on first branchset only"
       ELSE IF uncertainty_type = "gmpeModel"
       THEN "uncertainty of type gmpeModel is not allowed in source model logic tree"
       ELSE ""

\* SourceModelLogicTree.collect_source_model_data on the file with the
\* data, st being the attributes of the tree that parse_branches works on
CollectData(st, branch_id, data, old) ==
  [st EXCEPT
     !.trts = @ \cup data.trts,
     !.sids = [b \in DOMAIN @ \cup {branch_id} |->
                 IF b = branch_id THEN old \o data.ids ELSE @[b]],
     !.stypes = @ \cup data.types]

collect_source_model_data(st, branch_id, fname) ==
  CollectData(st, branch_id, FileData(fname),
              IF branch_id \in DOMAIN st.sids THEN st.sids[branch_id]
              ELSE <<>>)

\* parse_branches, one branch node: the weight is added and the text kept,
WeightAndValue(st, branchnode) ==
  [st EXCEPT !.weight_sum = @ + branchnode.weight,
             !.values = Append(@, branchnode.text)]

\* ... the file of a sourceModel or extendModel branch is scanned,
ScanModel(st, uncertainty_type, branchnode) ==
  IF uncertainty_type \in FileKinds
  THEN collect_source_model_data(st, branchnode.branchID, branchnode.text)
  ELSE st

\* the branch is added unless its id is in the branch-set being parsed
AddBranchLocal(st, uncertainty_type, bs_id, branchnode) ==
  IF branchnode.branchID \in Range(st.bsbranches)
  THEN [st EXCEPT !.error = "branchID is not unique"]
  ELSE [st EXCEPT
          !.branches =
             Append(@, Branch(bs_id, branchnode.branchID, branchnode.weight,
                              parse_uncertainty(uncertainty_type,
                                                branchnode.text))),
          !.bsbranches = Append(@, branchnode.branchID)]

\* ... and the branch is added, unless its id is in self.branches
AddBranch(st, uncertainty_type, bs_id, branchnode) ==
  IF Defined(st.branches, branchnode.branchID)
  THEN [st EXCEPT !.error = "branchID is not unique"]
  ELSE [st EXCEPT
          !.branches =
             Append(@, Branch(bs_id, branchnode.branchID, branchnode.weight,
                              parse_uncertainty(uncertainty_type,
                                                branchnode.text))),
          !.bsbranches = Append(@, branchnode.branchID)]

\* the loop of parse_branches from the i-th branch node on; st.error is the
\* message of the error raised, "" when none is
RECURSIVE parse_branches_loop(_, _, _, _)
parse_branches_loop(st, nd, bs_id, i) ==
  IF i > Len(nd.branches) \/ st.error # "" THEN st
  ELSE parse_branches_loop(
         AddBranch(ScanModel(WeightAndValue(st, nd.branches[i]),
                             nd.uncertaintyType, nd.branches[i]),
                   nd.uncertaintyType, bs_id, nd.branches[i]),
         nd, bs_id, i + 1)

\* the check without abs: only a sum above 1.0 is an error
WeightsAbove(weight_sum) == weight_sum - WOne > PRECISION

\* abs(weight_sum - 1.0) > pmf.PRECISION
WeightsOff(weight_sum) == Abs(weight_sum - WOne) > PRECISION

\* the checks that end parse_branches
CheckBranches(st) ==
  IF st.error # "" THEN st
  ELSE IF WeightsOff(st.weight_sum)
  THEN [st EXCEPT !.error = "branchset weights don't sum up to 1.0"]
  ELSE IF Cardinality(Range(st.values)) < Len(st.values)
  THEN [st EXCEPT !.error = "there are duplicate values in uncertaintyModel"]
  ELSE st

\* SourceModelLogicTree.parse_branches
parse_branches(st, nd) ==
  CheckBranches(parse_branches_loop(st, nd, nd.branchSetID, 1))

\* SourceModelLogicTree.apply_branchset from the i-th named branch on:
\* [error, branches]
RECURSIVE apply_branchset(_, _, _, _)
apply_branchset(brs, apply_to_branches, branchset, i) ==
  IF i > Len(apply_to_branches) THEN [error |-> "", branches |-> brs]
  ELSE LET branch_id == apply_to_branches[i]
       IN IF ~Defined(brs, branch_id)
          THEN [error |-> "branch is not yet defined", branches |-> brs]
          ELSE IF BranchOf(brs, branch_id).bset # 0
          THEN [error |-> "branch already has child branchset",
                branches |-> brs]
          ELSE apply_branchset(SetChild(brs, {branch_id}, branchset),
                               apply_to_branches, branchset, i + 1)

\* self.bsetdict[key] = attrs (a dict keeps the place of a key it has)
DictPut(dict, key, attrs) ==
  IF \E i \in 1..Len(dict) : dict[i].key = key
  THEN [i \in 1..Len(dict) |->
          IF dict[i].key = key THEN [key |-> key, attrs |-> attrs]
          ELSE dict[i]]
  ELSE Append(dict, [key |-> key, attrs |-> attrs])

\* branchset_node.attrib without branchSetID
AttrsOf(nd) ==
  [uncertaintyType |-> nd.uncertaintyType,
   applyToBranches |-> nd.applyToBranches,
   filters |-> nd.filters]

\* the lines of parse_branchset that attach the branch-set to the tree:
\* [error, branches]
Attach(st, nd, root, previous, branchset) ==
  IF root = 0 THEN [error |-> "", branches |-> st.branches]
  ELSE IF nd.applyToBranches # <<>>
  THEN apply_branchset(st.branches, nd.applyToBranches, branchset, 1)
  ELSE [error |-> "",
        branches |-> SetChild(st.branches, Range(previous), branchset)]

FirstError(err1, err2, err3, err4) ==
  IF err1 # "" THEN err1
  ELSE IF err2 # "" THEN err2
  ELSE IF err3 # "" THEN err3
  ELSE err4

\* the tree as parse_branchset leaves it, st being what parse_branches
\* returned and applied what attaching the branch-set did
Parsed(nd, err1, err2, st, applied) ==
  [error |-> FirstError(err1, err2, st.error, applied.error),
   branches |-> applied.branches,
   bsets |-> Append(bsets,
                    [BranchSet(nd.uncertaintyType,
                               parse_filters(nd, nd.uncertaintyType,
                                             nd.filters))
                       EXCEPT !.branches = st.bsbranches]),
   bsetdict |-> DictPut(bsetdict, nd.branchSetID, AttrsOf(nd)),
   previous_branches |-> st.bsbranches,
   root_branchset |-> IF root_branchset = 0 THEN Len(bsets) + 1
                      ELSE root_branchset,
   num_paths |-> (IF root_branchset = 0 THEN 1 ELSE num_paths)
                 * Len(st.bsbranches),
   tectonic_region_types |-> st.trts,
   source_types |-> st.stypes,
   source_ids |-> st.sids]

ParsedBranches(nd, err1, err2, st) ==
  Parsed(nd, err1, err2, st,
         Attach(st, nd, root_branchset, previous_branches, Len(bsets) + 1))

\* SourceModelLogicTree.parse_branchset on the branching level nd at depth d:
\* the message of the error raised ("" when none is) and the attributes of
\* the tree as it leaves them
parse_branchset(nd, d) ==
  ParsedBranches(
    nd,
    validate_filters(nd, nd.uncertaintyType, nd.filters,
                     tectonic_region_types, source_types, source_ids),
    validate_branchset(d, nd.uncertaintyType),
    parse_branches([error |-> "", branches |-> branches,
                    bsbranches |-> <<>>, weight_sum |-> 0, values |-> <<>>,
                    trts |-> tectonic_region_types,
                    stypes |-> source_types, sids |-> source_ids],
                   nd))

(***************************************************************************)
(* The branching levels the parser is given.                               *)
(***************************************************************************)
Weights == {8, 10, 12, 13, WOne}
BranchSetIds == <<"bs1", "bs2", "bs3", "bs4">>

\* the i-th uncertaintyModel text of a branch-set of the kind
TextOf(uncertainty_type, i) ==
  IF uncertainty_type = "sourceModel" THEN SourceModelFiles[i]
  ELSE IF uncertainty_type = "extendModel" THEN ExtendModelFiles[i]
  ELSE NumberTexts[i]

\* the weight of the i-th of n branches that share 1.0
Share(n, i) == IF i < n THEN WOne \div n ELSE WOne - (n - 1) * (WOne \div n)

\* the ids not used yet, in BranchIdOrder
FreshIds(brs) ==
  InOrder({b \in BranchIds : ~Defined(brs, b)}, 1)

ApplyChoices ==
  {InOrder(S, 1) : S \in {T \in SUBSET BranchIds : Cardinality(T) <= MaxApply}}

MakeNode(bsid, utype, atb, n, ids, weights, texts) ==
  [branchSetID |-> bsid, uncertaintyType |-> utype, filters |-> NoFilters,
   applyToBranches |-> atb,
   branches |-> [i \in 1..n |-> [branchID |-> ids[i], weight |-> weights[i],
                                 text |-> texts[i]]]]

BranchCounts(brs) == {n \in 1..MaxBranches : n <= Len(FreshIds(brs))}

\* a level with fresh branch ids, distinct values, weights sharing 1.0 and
\* no applyToBranches
PlainNode(d, brs, utype, n) ==
  MakeNode(BranchSetIds[d + 1], utype, <<>>, n, FreshIds(brs),
           [i \in 1..n |-> Share(n, i)], [i \in 1..n |-> TextOf(utype, i)])

RightKind(d) == IF d = 0 THEN "sourceModel" ELSE "maxMagGRRelative"

OtherKinds(d) ==
  IF d = 0 THEN {"maxMagGRRelative", "gmpeModel"}
  ELSE {"sourceModel", "gmpeModel", "extendModel"}

\* well-formed levels of the kind the depth asks for, with any weights and,
\* below the root, any applyToBranches
CoreNodes(d, brs) ==
  UNION {{[PlainNode(d, brs, RightKind(d), n) EXCEPT
             !.applyToBranches = atb,
             !.branches = [i \in 1..n |-> [@[i] EXCEPT !.weight = weights[i]]]] :
            weights \in [1..n -> Weights],
            atb \in IF d = 0 THEN {<<>>} ELSE ApplyChoices} :
         n \in BranchCounts(brs)}

\* levels that differ from a plain one in one respect: another kind, a
\* branch id used before, a repeated value, a branchSetID used before
VariantNodes(d, brs) ==
  UNION {
    LET plain == PlainNode(d, brs, RightKind(d), n)
    IN {PlainNode(d, brs, utype, n) : utype \in OtherKinds(d)}
       \cup UNION {{[plain EXCEPT !.branches[i].branchID = b] :
                       b \in {x \in BranchIds :
                                Defined(brs, x)
                                \/ \E j \in 1..(i - 1) :
                                     FreshIds(brs)[j] = x}} :
                    i \in 1..n}
       \cup {[plain EXCEPT !.branches[i].text = plain.branches[1].text] :
               i \in 2..n}
       \cup {[plain EXCEPT !.branchSetID = BranchSetIds[k]] : k \in 1..d}
    : n \in BranchCounts(brs)}

Nodes(d, brs) == CoreNodes(d, brs) \cup VariantNodes(d, brs)

\* the levels the sampling specification draws from: well-formed levels with
\* equal weights or the weights 0.6 / 0.4, and any applyToBranches
SampleNodes(d, brs) ==
  {nd \in CoreNodes(d, brs) :
     \/ \A i \in 1..Len(nd.branches) :
          nd.branches[i].weight = Share(Len(nd.branches), i)
     \/ /\ Len(nd.branches) = 2
        /\ nd.branches[1].weight = 12
        /\ nd.branches[2].weight = 8}

\* the levels of the trees the threads sample: each level applies to every
\* branch of the level above
ThreadNodes(d, brs) ==
  {nd \in SampleNodes(d, brs) : nd.applyToBranches = <<>>}

\* the uncertainty kinds that replace a value of the source
AbsoluteKinds ==
  {"maxMagGRAbsolute", "abGRAbsolute", "incrementalMFDAbsolute",
   "simpleFaultDipAbsolute", "simpleFaultGeometryAbsolute",
   "complexFaultGeometryAbsolute", "characteristicFaultGeometryAbsolute"}

\* a filter attribute of a branch-set node; applyToSources holds the words
\* of its text
Filter(key, value) == [k \in {key} |-> value]

TwoFilters ==
  [k \in {"applyToTectonicRegionType", "applyToSources"} |->
     IF k = "applyToSources" THEN <<"s1">> ELSE "Active"]

\* the filters of the first level below the root: none, each filter with a
\* value the source models have or not, one or two source ids, two filters
FirstFilters ==
  {NoFilters, TwoFilters,
   Filter("applyToTectonicRegionType", "Active"),
   Filter("applyToTectonicRegionType", "Volcanic"),
   Filter("applyToSourceType", "pointSource"),
   Filter("applyToSourceType", "volcanoSource"),
   Filter("applyToSources", <<"s1">>),
   Filter("applyToSources", <<"s1", "s2">>),
   Filter("applyToSources", <<"s9">>),
   Filter("applyToSources", <<"s1", "s9">>)}

\* the filters of the levels below: "s5" is a source of ext1.xml only
NextFilters ==
  {NoFilters,
   Filter("applyToTectonicRegionType", "Active"),
   Filter("applyToSourceType", "pointSource"),
   Filter("applyToSources", <<"s1">>),
   Filter("applyToSources", <<"s5">>)}

FiltersAt(d) == IF d = 1 THEN FirstFilters ELSE NextFilters

KindsAt(d) ==
  IF d = 1
  THEN AbsoluteKinds
       \cup {"maxMagGRRelative", "simpleFaultDipRelative", "extendModel"}
  ELSE {"maxMagGRRelative", "extendModel"}

\* the number of branches of a level of the kind
CountsOf(uncertainty_type, brs) ==
  IF uncertainty_type \in {"maxMagGRRelative", "extendModel"}
  THEN BranchCounts(brs)
  ELSE {n \in BranchCounts(brs) : n = 1}

\* applyToBranches: missing, or one branch of the tree
OneBranch(brs) == {<<>>} \cup {<<brs[i].branch_id>> : i \in 1..Len(brs)}

\* the levels of the trees with filters: a root of kind sourceModel, with a
\* filter or not, and below it every kind with every filter
FilterNodes(d, brs) ==
  IF d = 0
  THEN {PlainNode(d, brs, "sourceModel", n) : n \in BranchCounts(brs)}
       \cup {[PlainNode(d, brs, "sourceModel", 1) EXCEPT
                !.filters = Filter("applyToTectonicRegionType", "Active")]}
  ELSE UNION {{[PlainNode(d, brs, k, n) EXCEPT
                  !.filters = f, !.applyToBranches = atb] :
                 f \in FiltersAt(d), atb \in OneBranch(brs),
                 n \in CountsOf(k, brs)} :
              k \in KindsAt(d)}

\* the levels of the trees the operations are compared on: levels with
\* filters that apply to every branch of the level above
FrameNodes(d, brs) ==
  {nd \in FilterNodes(d, brs) : nd.applyToBranches = <<>>}

(***************************************************************************)
(* numpy's global generator.  A linear congruential generator on RngMod    *)
(* states stands for the Mersenne twister; a draw is the number            *)
(* state / RngMod of [0, 1).                                               *)
(***************************************************************************)
RngMod == 8
RngStates == 0..(RngMod - 1)

\* numpy.random.seed(seed)
RngSeed(s) == s % RngMod

\* the state after one draw
RngStep(r) == (5 * r + 3) % RngMod

\* the cumulative sums of the weights: cdf[k] = p[1] + ... + p[k]
Cumsum(p) == [k \in 1..Len(p) |-> SumSeq(SubSeq(p, 1, k))]

\* one index drawn by numpy.random.choice(len(p), 1, p=p) in the generator
\* state r: cdf.searchsorted(u, side='right') on the normalised cdf, u being
\* the draw r / RngMod
Choice(p, r) ==
  LET cdf == Cumsum(p)
  IN 1 + Cardinality({k \in 1..Len(p) :
                        cdf[k] * RngMod <= r * cdf[Len(p)]})

\* the indices numpy.random.choice(len(p), n, p=p) draws from the generator
\* state r on, and the state it leaves: [idxs, rng]
RECURSIVE ChoiceN(_, _, _)
ChoiceN(p, n, r) ==
  IF n = 0 THEN [idxs |-> <<>>, rng |-> r]
  ELSE LET r1 == RngStep(r)
           rest == ChoiceN(p, n - 1, r1)
       IN [idxs |-> <<Choice(p, r1)>> \o rest.idxs, rng |-> rest.rng]

\* the last line of sample: the objects at the indices drawn
Take(weighted_objects, n, drawn) ==
  [objs |-> [k \in 1..n |-> weighted_objects[drawn.idxs[k]]],
   rng |-> drawn.rng]

\* sample without the call of numpy.random.seed: the draws go on from the
\* state the generator is in
sample_unseeded(weighted_objects, weights, n, s, r) ==
  Take(weighted_objects, n, ChoiceN(weights, n, r))

\* sample(weighted_objects, num_samples, seed) called in the generator state
\* r, weights being the weights of the objects (the float obj.weight, or the
\* default component of an ImtWeight): [objs, rng], the objects drawn and the
\* state the generator is left in
sample(weighted_objects, weights, n, s, r) ==
  Take(weighted_objects, n, ChoiceN(weights, n, RngSeed(s)))

(***************************************************************************)
(* Realizations, enumeration and sampling of the source-model tree.        *)
(***************************************************************************)
\* a weight that is a product of k branch weights, or 1 / num_samples
Ratio(n, d) == [n |-> n, d |-> d]

\* Realization.__init__; the ordinal None is -1
Realization(value, weight, ordinal, lt_path, samples) ==
  [value |-> value, weight |-> weight, ordinal |-> ordinal,
   lt_path |-> lt_path, samples |-> samples]

\* the depth of generators at which the interpreter raises RecursionError
RecursionLimit == 5

\* what a generator and the one after it have yielded, and whether
\* RecursionError ended them
Chain(first, rest) ==
  IF first.raised THEN first
  ELSE [paths |-> first.paths \o rest.paths, raised |-> rest.raised]

RECURSIVE _enumerate_paths(_, _, _, _, _, _)
\* the body of the loop of _enumerate_paths
EnumerateBranch(brs, bss, branch, path, d) ==
  IF branch.bset # 0
  THEN _enumerate_paths(brs, bss, branch.bset, path, 1, d + 1)
  ELSE [paths |-> <<path>>, raised |-> FALSE]

\* BranchSet._enumerate_paths of the branch-set bs at generator depth d, from
\* its i-th branch on: the nested lists [prefix, branch] yielded
_enumerate_paths(brs, bss, bs, prefix_path, i, d) ==
  IF d > RecursionLimit THEN [paths |-> <<>>, raised |-> TRUE]
  ELSE IF i > Len(bss[bs].branches) THEN [paths |-> <<>>, raised |-> FALSE]
  ELSE Chain(EnumerateBranch(brs, bss, BranchOf(brs, bss[bs].branches[i]),
                             <<prefix_path, bss[bs].branches[i]>>, d),
             _enumerate_paths(brs, bss, bs, prefix_path, i + 1, d))

\* the loop keeping the weight of the branch instead of the product
LastBranch(branch, up) ==
  [weight |-> Ratio(branch.weight, WOne),
   flat_path |-> Append(up.flat_path, branch.branch_id)]

\* one turn of the while loop of enumerate_paths
TimesBranch(branch, up) ==
  [weight |-> Ratio(up.weight.n * branch.weight, up.weight.d * WOne),
   flat_path |-> Append(up.flat_path, branch.branch_id)]

\* the while loop of enumerate_paths over one nested path, the innermost
\* pair being the leaf: the product of the weights and the branches from
\* the leaf to the root
RECURSIVE Unwind(_, _, _)
Unwind(brs, path, acc) ==
  IF path = <<>> THEN acc
  ELSE Unwind(brs, path[1], TimesBranch(BranchOf(brs, path[2]), acc))

Reverse(s) == [i \in 1..Len(s) |-> s[Len(s) + 1 - i]]

\* yield weight, flat_path[::-1]
WeightAndPath(u) == [weight |-> u.weight, flat_path |-> Reverse(u.flat_path)]

FlatPaths(brs, e) ==
  [paths |-> [k \in 1..Len(e.paths) |->
                WeightAndPath(Unwind(brs, e.paths[k],
                                     [weight |-> Ratio(1, 1),
                                      flat_path |-> <<>>]))],
   raised |-> e.raised]

\* BranchSet.enumerate_paths: [paths, raised], paths being the pairs
\* [weight, flat_path] yielded
enumerate_paths(brs, bss, bs) ==
  FlatPaths(brs, _enumerate_paths(brs, bss, bs, <<>>, 1, 1))

\* the weights sample reads from the branches
BranchWeights(brs, ids) ==
  [k \in 1..Len(ids) |-> BranchOf(brs, ids[k]).weight]

Push(branch_id, rest) ==
  [branches |-> <<branch_id>> \o rest.branches,
   rng |-> rest.rng, hung |-> rest.hung]

RECURSIVE sample_path_loop(_, _, _, _, _, _)
\* the body of the while loop of sample_path after the draw
Follow(brs, bss, bs, s, seen, drawn) ==
  Push(drawn.objs[1],
       sample_path_loop(brs, bss, BranchOf(brs, drawn.objs[1]).bset, s,
                        drawn.rng, seen \cup {bs}))

\* SourceModelLogicTree.sample_path(s) from the branch-set bs on, called in
\* the generator state r: [branches, rng, hung]; hung when the loop comes
\* back to a branch-set it has left, which it then does for ever
sample_path_loop(brs, bss, bs, s, r, seen) ==
  IF bs = 0 THEN [branches |-> <<>>, rng |-> r, hung |-> FALSE]
  ELSE IF bs \in seen THEN [branches |-> <<>>, rng |-> r, hung |-> TRUE]
  ELSE Follow(brs, bss, bs, s, seen,
              sample(bss[bs].branches,
                     BranchWeights(brs, bss[bs].branches), 1, s, r))

sample_path(brs, bss, root, s, r) == sample_path_loop(brs, bss, root, s, r, {})

Yield(rlz, rest) ==
  [rlzs |-> <<rlz>> \o rest.rlzs, rng |-> rest.rng, hung |-> rest.hung]

RECURSIVE iter_samples(_, _, _, _, _, _, _)
\* the body of the sampling loop of __iter__ after sample_path returned
YieldSample(brs, bss, root, n, s, i, smlt_path) ==
  IF smlt_path.hung
  THEN [rlzs |-> <<>>, rng |-> smlt_path.rng, hung |-> TRUE]
  ELSE Yield(Realization(BranchOf(brs, smlt_path.branches[1]).value,
                         Ratio(1, n), 0 - 1, smlt_path.branches, 1),
             iter_samples(brs, bss, root, n, s, smlt_path.rng, i + 1))

\* the seed of the i-th call of sample_path in __iter__
IterSeed(s, i) == s + i

\* the sampling branch of SourceModelLogicTree.__iter__, from the i-th
\* sample on: [rlzs, rng, hung]
iter_samples(brs, bss, root, n, s, r, i) ==
  IF i >= n THEN [rlzs |-> <<>>, rng |-> r, hung |-> FALSE]
  ELSE YieldSample(brs, bss, root, n, s, i,
                   sample_path(brs, bss, root, IterSeed(s, i), r))

EnumeratedRlzs(brs, e) ==
  [rlzs |-> [k \in 1..Len(e.paths) |->
               Realization(BranchOf(brs, e.paths[k].flat_path[1]).value,
                           e.paths[k].weight, k - 1,
                           e.paths[k].flat_path, 1)],
   raised |-> e.raised]

\* the enumeration branch of SourceModelLogicTree.__iter__: [rlzs, raised]
iter_enumerate(brs, bss, root) ==
  EnumeratedRlzs(brs, enumerate_paths(brs, bss, root))

(***************************************************************************)
(* apply_uncertainties: the source groups of a realization.                *)
(***************************************************************************)
\* a source as the source model reader returns it, with the uncertainties
\* applied to it and whether its ruptures were counted again
Source(source_id, trt, type) ==
  [source_id |-> source_id, tectonic_region_type |-> trt, type |-> type,
   applied |-> <<>>, recounted |-> FALSE]

SourceGroup(trt, sources) == [trt |-> trt, sources |-> sources, changes |-> 0]

\* nrml.read_source_models([fname], converter): the source groups of the
\* file, which FileData summarises
read_source_models(fname) ==
  CASE fname = "sm1.xml" ->
         <<SourceGroup("Active", <<Source("s1", "Active", "pointSource"),
                                   Source("s2", "Active", "pointSource")>>)>>
    [] fname = "sm2.xml" ->
         <<SourceGroup("Active", <<Source("s1", "Active", "areaSource")>>),
           SourceGroup("Stable",
                       <<Source("s3", "Stable", "simpleFaultSource")>>)>>
    [] fname = "sm3.xml" ->
         <<SourceGroup("Stable", <<Source("s4", "Stable", "pointSource")>>)>>
    [] fname = "ext1.xml" ->
         <<SourceGroup("Active", <<Source("s5", "Active", "pointSource")>>)>>
    [] fname = "ext2.xml" ->
         <<SourceGroup("Active", <<Source("s1", "Active", "areaSource")>>)>>
    [] OTHER ->
         <<SourceGroup("Stable", <<Source("s5", "Stable", "pointSource"),
                                   Source("s6", "Stable", "pointSource")>>)>>

\* set(src.source_id for sg in src_groups for src in sg)
SourceIdsOf(src_groups) ==
  UNION {{src_groups[i].sources[k].source_id :
            k \in 1..Len(src_groups[i].sources)} : i \in 1..Len(src_groups)}

\* the isinstance tests of filter_source for applyToSourceType: "True",
\* "False", or the AssertionError raised for another value
SourceTypeTest(value, source) ==
  CASE value = "area" ->
         IF source.type = "areaSource" THEN "True" ELSE "False"
    [] value = "point" ->
         IF source.type = "pointSource" THEN "True" ELSE "False"
    [] value = "simpleFault" ->
         IF source.type = "simpleFaultSource" THEN "True" ELSE "False"
    [] value = "complexFault" ->
         IF source.type = "complexFaultSource" THEN "True" ELSE "False"
    [] value = "characteristicFault" ->
         IF source.type = "characteristicFaultSource" THEN "True" ELSE "False"
    [] OTHER -> "unknown source type '" \o value \o "'"

\* the body of the loop of filter_source for one filter
FilterTest(key, value, source) ==
  IF key = "applyToTectonicRegionType"
  THEN IF value # source.tectonic_region_type THEN "False" ELSE "True"
  ELSE IF key = "applyToSourceType" THEN SourceTypeTest(value, source)
  ELSE IF source.source_id \notin Range(value) THEN "False" ELSE "True"

\* BranchSet.filter_source, from the i-th filter on (the filters are in the
\* order of FILTERS): "True", "False", or the AssertionError raised
RECURSIVE filter_source(_, _, _)
FilterThen(filters, source, i, test) ==
  IF test = "True" THEN filter_source(filters, source, i + 1) ELSE test

filter_source(filters, source, i) ==
  IF i > Len(FILTERS) THEN "True"
  ELSE IF FILTERS[i] \notin DOMAIN filters
  THEN filter_source(filters, source, i + 1)
  ELSE FilterThen(filters, source, i,
                  FilterTest(FILTERS[i], filters[FILTERS[i]], source))

\* lt.apply_uncertainty(uncertainty_type, source, value)
apply_uncertainty(uncertainty_type, source, value) ==
  [source EXCEPT
     !.applied = Append(@, [uncertainty_type |-> uncertainty_type,
                            value |-> value])]

\* the body of the loop over branchsets_and_uncertainties for one source,
\* st being [source, changes, error]
ApplyOne(st, bset, value, test) ==
  IF test = "True"
  THEN [st EXCEPT
          !.source = apply_uncertainty(bset.uncertainty_type, @, value),
          !.changes = @ + 1]
  ELSE IF test = "False" THEN st
  ELSE [st EXCEPT !.error = test]

RECURSIVE ApplyAll(_, _, _)
ApplyAll(st, bu, k) ==
  IF k > Len(bu) \/ st.error # "" THEN st
  ELSE ApplyAll(ApplyOne(st, bu[k].bset, bu[k].value,
                         filter_source(bu[k].bset.filters, st.source, 1)),
                bu, k + 1)

\* if changes: the ruptures are counted again and sg.changes grows; the
\* source keeps what was applied to it before an AssertionError
Recount(sg, k, st) ==
  IF st.error # ""
  THEN [sg |-> [sg EXCEPT !.sources[k] = st.source], error |-> st.error]
  ELSE IF st.changes = 0 THEN [sg |-> sg, error |-> ""]
  ELSE [sg |-> [sg EXCEPT !.sources[k] = [st.source EXCEPT
                                            !.recounted = TRUE],
                          !.changes = @ + st.changes],
        error |-> ""]

\* the loop over the sources of a group, from the k-th on: [sg, error]
RECURSIVE ApplyToGroup(_, _, _)
GroupNext(r, bu, k) ==
  IF r.error # "" THEN r ELSE ApplyToGroup(r.sg, bu, k + 1)

ApplyToGroup(sg, bu, k) ==
  IF k > Len(sg.sources) THEN [sg |-> sg, error |-> ""]
  ELSE GroupNext(Recount(sg, k,
                         ApplyAll([source |-> sg.sources[k], changes |-> 0,
                                   error |-> ""], bu, 1)),
                 bu, k)

\* the loop over the source groups, from the i-th on: [src_groups, error]
RECURSIVE ApplyToGroups(_, _, _)
GroupsNext(src_groups, bu, i, r) ==
  IF r.error # ""
  THEN [src_groups |-> [src_groups EXCEPT ![i] = r.sg], error |-> r.error]
  ELSE ApplyToGroups([src_groups EXCEPT ![i] = r.sg], bu, i + 1)

ApplyToGroups(src_groups, bu, i) ==
  IF i > Len(src_groups) THEN [src_groups |-> src_groups, error |-> ""]
  ELSE GroupsNext(src_groups, bu, i,
                  ApplyToGroup([src_groups[i] EXCEPT !.changes = 0], bu, 1))

\* the check left out: no source id is ever common
CommonIdsNone(base_ids, extra_ids) == {}

\* common = base_ids & extra_ids
CommonIds(base_ids, extra_ids) == base_ids \cap extra_ids

\* the branch of the while loop for a branch-set of kind extendModel, acc
\* being [src_groups, bu, error, common]
Extend(acc, ext, common) ==
  IF common # {}
  THEN [acc EXCEPT !.error = "InvalidFile", !.common = common]
  ELSE [acc EXCEPT !.src_groups = @ \o ext]

\* one turn of the while loop on the branch of the path
Collect(acc, base_ids, bset, branch) ==
  IF bset.uncertainty_type = "extendModel"
  THEN Extend(acc, read_source_models(branch.value.text),
              CommonIds(base_ids,
                        SourceIdsOf(read_source_models(branch.value.text))))
  ELSE IF bset.uncertainty_type # "sourceModel"
  THEN [acc EXCEPT !.bu = Append(@, [bset |-> bset, value |-> branch.value])]
  ELSE acc

\* the while loop of apply_uncertainties, on the branch-set bs (0 is None)
RECURSIVE CollectPath(_, _, _, _, _, _)
CollectNext(brs, bss, path, base_ids, branch, acc) ==
  IF acc.error # "" THEN acc
  ELSE CollectPath(brs, bss, branch.bset, Tail(path), base_ids, acc)

CollectPath(brs, bss, bs, path, base_ids, acc) ==
  IF bs = 0 THEN acc
  ELSE IF path = <<>> THEN [acc EXCEPT !.error = "IndexError"]
  ELSE IF path[1] \notin Range(bss[bs].branches)
  THEN [acc EXCEPT !.error = "KeyError"]
  ELSE CollectNext(brs, bss, path, base_ids, BranchOf(brs, path[1]),
                   Collect(acc, base_ids, bss[bs], BranchOf(brs, path[1])))

\* the end of apply_uncertainties: [error, common, src_groups], the source
\* groups being the ones returned, or as they are when the error is raised
Perturbed(acc, r) ==
  [error |-> r.error, common |-> {}, src_groups |-> r.src_groups]

ApplyCollected(acc) ==
  IF acc.error # ""
  THEN [error |-> acc.error, common |-> acc.common,
        src_groups |-> acc.src_groups]
  ELSE IF acc.bu = <<>>
  THEN [error |-> "", common |-> {}, src_groups |-> acc.src_groups]
  ELSE Perturbed(acc, ApplyToGroups(acc.src_groups, acc.bu, 1))

\* SourceModelLogicTree.apply_uncertainties(ltpath, fname, converter)
apply_uncertainties(brs, bss, root, ltpath, fname) ==
  ApplyCollected(
    CollectPath(brs, bss, root, ltpath,
                SourceIdsOf(read_source_models(fname)),
                [src_groups |-> read_source_models(fname), bu |-> <<>>,
                 error |-> "", common |-> {}]))

(***************************************************************************)
(* The tabular export and the import.  The table is the sequence of its    *)
(* rows; a string of branch ids separated by blanks is the sequence of     *)
(* its words.                                                              *)
(***************************************************************************)
\* self.bsetdict[key]
DictGet(dict, key) ==
  dict[CHOOSE i \in 1..Len(dict) : dict[i].key = key].attrs

\* tomldict: every attribute but uncertaintyType, as a TOML document
tomldict(ddic) ==
  [i \in 1..Len(ddic) |->
     [key |-> ddic[i].key,
      attrs |-> [applyToBranches |-> ddic[i].attrs.applyToBranches,
                 filters |-> ddic[i].attrs.filters]]]

\* SourceModelLogicTree.__toh5__: the table (a row per branch, in the order
\* of self.branches) and the attributes
__toh5__(brs, ddic, n) ==
  [array |-> [i \in 1..Len(brs) |->
                [branchset |-> brs[i].bs_id,
                 branch |-> brs[i].branch_id,
                 utype |-> DictGet(ddic, brs[i].bs_id).uncertaintyType,
                 uvalue |-> ValueText(brs[i].value),
                 weight |-> brs[i].weight]],
   attrs |-> tomldict(ddic),
   num_samples |-> n]

\* the rows of the table with the key, in the order of the table
RECURSIVE Rows(_, _, _)
Rows(array, key, i) ==
  IF i > Len(array) THEN <<>>
  ELSE (IF array[i].branchset = key THEN <<array[i]>> ELSE <<>>)
       \o Rows(array, key, i + 1)

GroupOf(array, key) ==
  IF \E i \in 1..Len(array) : array[i].branchset = key
  THEN <<[key |-> key, rows |-> Rows(array, key, 1)]>>
  ELSE <<>>

\* baselib.general.group_array(array, 'branchset'): the rows grouped by
\* branch-set id, the groups sorted by id (BranchSetIds is sorted)
RECURSIVE group_array(_, _)
group_array(array, k) ==
  IF k > Len(BranchSetIds) THEN <<>>
  ELSE GroupOf(array, BranchSetIds[k]) \o group_array(array, k + 1)

\* the first loop of __fromh5__: the BranchSet objects ...
H5BranchSets(groups) ==
  [g \in 1..Len(groups) |->
     [id |-> groups[g].key,
      branches |-> [r \in 1..Len(groups[g].rows) |->
                      groups[g].rows[r].branch],
      uncertainty_type |-> groups[g].rows[1].utype,
      filters |-> NoFilters]]

\* ... and the Branch objects made of the rows, group after group
RowBranches(rows) ==
  [r \in 1..Len(rows) |->
     Branch(rows[r].branchset, rows[r].branch, rows[r].weight,
            StrValue(rows[r].uvalue))]

RECURSIVE H5Branches(_, _)
H5Branches(groups, g) ==
  IF g > Len(groups) THEN <<>>
  ELSE RowBranches(groups[g].rows) \o H5Branches(groups, g + 1)

\* toml.loads(attrs[childset.id]).get('applyToBranches')
AtbOf(attrs, id) ==
  attrs[CHOOSE i \in 1..Len(attrs) : attrs[i].key = id].attrs.applyToBranches

\* not atb or branch.branch_id in atb, atb being a string
Applies(atb, branch_id) ==
  atb = <<>> \/ \E k \in 1..Len(atb) : IsSubstring(branch_id, atb[k])

\* the branch-set __fromh5__ gives to the parent branches of childset: bset,
\* the variable of the first loop, which holds the last branch-set made
ChildGiven(bss, childset) == Len(bss)

\* the second loop of __fromh5__ from the i-th child branch-set on (i is
\* based on 0, as in the code: the parents are bsets[i], the child
\* bsets[1:][i])
RECURSIVE LinkSets(_, _, _, _)
LinkSets(brs, bss, attrs, i) ==
  IF i + 2 > Len(bss) THEN brs
  ELSE LinkSets(
         SetChild(brs,
                  {b \in Range(bss[i + 1].branches) :
                     Applies(AtbOf(attrs, bss[i + 2].id), b)},
                  ChildGiven(bss, i + 2)),
         bss, attrs, i + 1)

FromGroups(groups, attrs, n) ==
  [branches |-> LinkSets(H5Branches(groups, 1), H5BranchSets(groups),
                         attrs, 0),
   bsets |-> H5BranchSets(groups),
   root_branchset |-> 1,
   num_samples |-> n]

\* SourceModelLogicTree.__fromh5__: the attributes it sets on the new tree
__fromh5__(array, attrs, n) ==
  FromGroups(group_array(array, 1), attrs, n)

(***************************************************************************)
(* Construction as a state machine.                                        *)
(***************************************************************************)
NoSourceIds == [b \in {} |-> <<>>]

\* SourceModelLogicTree.__init__ up to the call of parse_tree.  Nothing reads
\* seed and num_samples (the arguments of the constructor) or the global
\* generator before parse_tree returns: they are drawn when it does.
SmInit ==
  /\ phase = "parsing"
  /\ error = ""
  /\ depth = 0
  /\ node = NoNode
  /\ branches = <<>>
  /\ bsets = <<>>
  /\ bsetdict = <<>>
  /\ previous_branches = <<>>
  /\ root_branchset = 0
  /\ num_paths = 0
  /\ tectonic_region_types = {}
  /\ source_types = {}
  /\ source_ids = NoSourceIds
  /\ num_samples = 0
  /\ seed = 0
  /\ rng = 0
  /\ out = NoOut
  /\ ref = NoOut
  /\ calls = 0
  /\ h5 = NoH5
  /\ copy = NoCopy
  /\ sgroups = NoApplied
  /\ tmap = NoMapping
  /\ threads = [t \in Threads |-> NoCall]

\* the tree after parse_branchset returned r, or no tree when it raised
ParseDone(r) ==
  IF r.error # ""
  THEN /\ phase' = "failed"
       /\ error' = r.error
       /\ depth' = depth
       /\ branches' = <<>>
       /\ bsets' = <<>>
       /\ bsetdict' = <<>>
       /\ previous_branches' = <<>>
       /\ root_branchset' = 0
       /\ num_paths' = 0
       /\ tectonic_region_types' = {}
       /\ source_types' = {}
       /\ source_ids' = NoSourceIds
  ELSE /\ phase' = "parsing"
       /\ error' = ""
       /\ depth' = depth + 1
       /\ branches' = r.branches
       /\ bsets' = r.bsets
       /\ bsetdict' = r.bsetdict
       /\ previous_branches' = r.previous_branches
       /\ root_branchset' = r.root_branchset
       /\ num_paths' = r.num_paths
       /\ tectonic_region_types' = r.tectonic_region_types
       /\ source_types' = r.source_types
       /\ source_ids' = r.source_ids

\* one turn of the loop of parse_tree: parse_branchset on the next level,
\* one of levels.  An error leaves __init__, and no tree object exists.
ParseBranchset(levels) ==
  /\ phase = "parsing"
  /\ depth < MaxLevels
  /\ \E nd \in levels :
       /\ node' = nd
       /\ ParseDone(parse_branchset(nd, depth))
  /\ UNCHANGED <<num_samples, seed, rng, out, ref, calls, h5, copy,
                 sgroups, xvars, gvars>>

\* the loop of parse_tree ends and __init__ returns: the tree is constructed,
\* with the num_samples and seed its caller gave
EndParse(samples, seeds) ==
  /\ phase = "parsing"
  /\ depth >= 1
  /\ phase' = "constructed"
  /\ num_samples' \in samples
  /\ seed' \in seeds
  /\ UNCHANGED <<error, depth, node, treevars, rng, out, ref, calls, h5, copy,
                 sgroups, xvars, gvars>>

(***************************************************************************)
(* Operations on the constructed tree.                                     *)
(***************************************************************************)
Result(op, s, path, rlzs, raised) ==
  [op |-> op, seed |-> s, path |-> path, rlzs |-> rlzs, raised |-> raised]

SampleSeeds == 0..(MaxSeed + MaxSamples - 1)

\* what the caller of an operation is left with
Returned(result, r, hung) ==
  /\ phase' = IF hung THEN "hung" ELSE phase
  /\ out' = result
  /\ rng' = r
  /\ ref' = IF ref = NoOut /\ ~hung THEN result ELSE ref
  /\ calls' = calls + 1

IterSampled(it) ==
  Returned(Result("iter", seed, <<>>, it.rlzs, FALSE), it.rng, it.hung)

IterEnumerated(it) ==
  Returned(Result("iter", seed, <<>>, it.rlzs, it.raised), rng, FALSE)

\* list(tree): SourceModelLogicTree.__iter__ run to its end
Iter ==
  /\ phase = "constructed"
  /\ calls < MaxCalls
  /\ IF num_samples # 0
     THEN IterSampled(iter_samples(branches, bsets, root_branchset,
                                   num_samples, seed, rng, 0))
     ELSE IterEnumerated(iter_enumerate(branches, bsets, root_branchset))
  /\ UNCHANGED <<error, depth, node, treevars, num_samples, seed, h5, copy,
                 sgroups, xvars, gvars>>

Sampled(s, sp) ==
  Returned(Result("sample", s, sp.branches, <<>>, FALSE), sp.rng, sp.hung)

\* tree.sample_path(s)
Sample ==
  /\ phase = "constructed"
  /\ calls < MaxCalls
  /\ \E s \in SampleSeeds :
       Sampled(s, sample_path(branches, bsets, root_branchset, s, rng))
  /\ UNCHANGED <<error, depth, node, treevars, num_samples, seed, h5, copy,
                 sgroups, xvars, gvars>>

\* the tree is exported: tree.__toh5__()
ToH5 ==
  /\ phase = "constructed"
  /\ h5 = NoH5
  /\ h5' = __toh5__(branches, bsetdict, num_samples)
  /\ UNCHANGED <<phase, error, depth, node, treevars, num_samples, seed, rng,
                 out, ref, calls, copy, sgroups, xvars, gvars>>

\* a new tree is filled from the export: new.__fromh5__(array, attrs)
FromH5 ==
  /\ h5 # NoH5
  /\ copy = NoCopy
  /\ copy' = __fromh5__(h5.array, h5.attrs, h5.num_samples)
  /\ UNCHANGED <<phase, error, depth, node, treevars, num_samples, seed, rng,
                 out, ref, calls, h5, sgroups, xvars, gvars>>

\* what the caller of apply_uncertainties is left with
Applied(ltpath, fname, r) ==
  sgroups' = [ltpath |-> ltpath, fname |-> fname, error |-> r.error,
              common |-> r.common, src_groups |-> r.src_groups]

\* tree.apply_uncertainties(rlz.lt_path, rlz.value, converter), for a
\* realization of the enumeration
ApplyUncertainties ==
  /\ phase = "constructed"
  /\ out.op = "iter"
  /\ \E i \in 1..Len(out.rlzs) :
       Applied(out.rlzs[i].lt_path, out.rlzs[i].value.text,
               apply_uncertainties(branches, bsets, root_branchset,
                                   out.rlzs[i].lt_path,
                                   out.rlzs[i].value.text))
  /\ UNCHANGED <<phase, error, depth, node, treevars, num_samples, seed, rng,
                 out, ref, calls, h5, copy, xvars, gvars>>

(***************************************************************************)
(* ImtWeight: a composite weight, the dict self.dic from "weight" and the  *)
(* IMTs to fixed-point floats.                                             *)
(***************************************************************************)
NoDic == [k \in {} |-> 0]

\* the dict ImtWeight.__init__ fills from the uncertaintyWeight nodes: a
\* later node of an IMT overwrites an earlier one
DicOf(nodes) ==
  [k \in {"weight"} \cup {nodes[i].imt : i \in 2..Len(nodes)} |->
     IF k = "weight" THEN nodes[1].value
     ELSE nodes[CHOOSE i \in 2..Len(nodes) :
                  /\ nodes[i].imt = k
                  /\ \A j \in (i + 1)..Len(nodes) : nodes[j].imt # k].value]

\* ImtWeight.__init__: [error, dic]
ImtWeight(nodes) ==
  IF nodes[1].imt # None
  THEN [error |-> "The first uncertaintyWeight has an imt attribute",
        dic |-> NoDic]
  ELSE IF Cardinality({nodes[i].imt : i \in 2..Len(nodes)}) < Len(nodes) - 1
  THEN [error |-> "There are duplicated IMTs in the weights", dic |-> NoDic]
  ELSE [error |-> "", dic |-> DicOf(nodes)]

\* ImtWeight.__getitem__
ImtWeight_getitem(dic, imt) ==
  IF imt \in DOMAIN dic THEN dic[imt] ELSE dic["weight"]

\* ImtWeight.__add__ with an ImtWeight: the keys are those of self
ImtWeight_add(dic, other) ==
  [k \in DOMAIN dic |-> dic[k] + ImtWeight_getitem(other, k)]

\* ImtWeight.__add__ with a float (__radd__ is __add__)
ImtWeight_radd(dic, other) == [k \in DOMAIN dic |-> dic[k] + other]

\* ImtWeight.is_one: the components that are 0 are not looked at
is_one(dic) ==
  \A k \in DOMAIN dic : dic[k] # 0 => Abs(dic[k] - WOne) < PRECISION

\* the built-in sum: 0 + weights[0] + weights[1] + ...
RECURSIVE SumFrom(_, _, _)
SumFrom(tot, weights, i) ==
  IF i > Len(weights) THEN tot
  ELSE SumFrom(ImtWeight_add(tot, weights[i]), weights, i + 1)

sum(weights) == SumFrom(ImtWeight_radd(weights[1], 0), weights, 2)

(***************************************************************************)
(* GsimLogicTree: construction.                                            *)
(***************************************************************************)
TrtOrder == <<"*", "A", "B", "C">>
GsimIdOrder == <<"g1", "g2", "g3", "g4", "g5", "g6", "g7", "g8", "g9">>
GsimSetIds == <<"gs1", "gs2", "gs3">>
GsimNames == <<"G1", "G2", "G3">>

\* the place of a string in an order of strings
Rank(order, x) == CHOOSE i \in 1..Len(order) : order[i] = x

\* sorted(...) and list.sort, keys[i] being the key of seq[i]: the place of
\* the i-th element in the result (the sort is stable)
PlaceSorted(keys, i) ==
  1 + Cardinality({j \in 1..Len(keys) :
                     keys[j] < keys[i] \/ (keys[j] = keys[i] /\ j < i)})

SortedBy(seq, keys) ==
  [p \in 1..Len(seq) |->
     seq[CHOOSE i \in 1..Len(seq) : PlaceSorted(keys, i) = p]]

\* sorted(tectonic_region_types)
SortedTrts(trts) ==
  SortedBy(trts, [i \in 1..Len(trts) |-> Rank(TrtOrder, trts[i])])

\* branches.sort(key=lambda b: (b.trt, b.id))
SortedBranches(brs) ==
  SortedBy(brs, [i \in 1..Len(brs) |->
                   Rank(TrtOrder, brs[i].trt) * (Len(GsimIdOrder) + 1)
                   + Rank(GsimIdOrder, brs[i].id)])

\* baselib.general.duplicated
duplicated(items) == Cardinality(Range(items)) < Len(items)

\* valid.gsim: the GSIM object of an uncertaintyModel text; two objects are
\* equal when their texts are
valid_gsim(text) == [gsim |-> text]

BranchTuple(trt, id, gsim, weight, effective) ==
  [trt |-> trt, id |-> id, gsim |-> gsim, weight |-> weight,
   effective |-> effective]

\* self.values[trt], a defaultdict(list)
ValuesOf(values, trt) ==
  IF \E i \in 1..Len(values) : values[i].key = trt
  THEN values[CHOOSE i \in 1..Len(values) : values[i].key = trt].attrs
  ELSE <<>>

\* the body of the loop over the branches of a branch-set, weight being
\* what ImtWeight(branch, fname) returned or raised
AddGsimBranch(st, nd, effective, branch, weight) ==
  IF weight.error # "" THEN [st EXCEPT !.error = weight.error]
  ELSE IF valid_gsim(branch.gsim) \in Range(ValuesOf(st.values, nd.trt))
  THEN [st EXCEPT !.error = "duplicated gsim"]
  ELSE IF nd.trt = None
  THEN [st EXCEPT !.error = "KeyError: 'applyToTectonicRegionType'"]
  ELSE [st EXCEPT
          !.weights = Append(@, weight.dic),
          !.branch_ids = Append(@, branch.branchID),
          !.values = DictPut(@, nd.trt,
                             Append(ValuesOf(@, nd.trt),
                                    valid_gsim(branch.gsim))),
          !.branches =
             IF effective
             THEN Append(@, BranchTuple(nd.trt, branch.branchID,
                                        valid_gsim(branch.gsim), weight.dic,
                                        effective))
             ELSE @]

RECURSIVE gsim_branches_loop(_, _, _, _)
gsim_branches_loop(st, nd, effective, i) ==
  IF i > Len(nd.branches) \/ st.error # "" THEN st
  ELSE gsim_branches_loop(
         AddGsimBranch(st, nd, effective, nd.branches[i],
                       ImtWeight(nd.branches[i].weights)),
         nd, effective, i + 1)

\* the checks after the loop over the branches
CheckGsimBranches(st) ==
  IF st.error # "" THEN st
  ELSE IF ~is_one(sum(st.weights))
  THEN [st EXCEPT !.error = "AssertionError"]
  ELSE IF duplicated(st.branch_ids)
  THEN [st EXCEPT !.error = "There where duplicated branchIDs"]
  ELSE st

\* effective = (tectonic_region_types == ['*'] or trt in ...)
Effective(trts, trt) == trts = <<"*">> \/ trt \in Range(trts)

\* the body of the loop of _build_trts_branches over the branching levels:
\* the error raised ("" when none is) and what the loop has built
build_branchset(nd, trts, brs, values) ==
  IF nd.uncertaintyType # "gmpeModel"
  THEN [error |-> "only uncertainties of type gmpeModel are allowed",
        branches |-> brs, values |-> values]
  ELSE IF nd.branchSetID \in gbsids
  THEN [error |-> "Duplicated branchSetID", branches |-> brs,
        values |-> values]
  ELSE CheckGsimBranches(
         gsim_branches_loop([error |-> "", branches |-> brs,
                             values |-> values, weights |-> <<>>,
                             branch_ids |-> <<>>],
                            nd, Effective(trts, nd.trt), 1))

(***************************************************************************)
(* The GSIM branching levels the parser is given, and the arguments of the *)
(* constructor.                                                            *)
(***************************************************************************)
GsimArgs == {<<>>, <<"*">>, <<"A">>, <<"B">>, <<"B", "A">>, <<"A", "A">>}

DefaultWeights == {10, WOne}
\* the weight of an IMT: none declared (-1), or one of these
ImtWeights == {0 - 1, 0, 10, WOne}

\* the uncertaintyWeight nodes of a branch: the default weight w and, if one
\* is declared, the weight of PGA
WeightNodes(w, pga) ==
  IF pga < 0 THEN <<[imt |-> None, value |-> w]>>
  ELSE <<[imt |-> None, value |-> w], [imt |-> "PGA", value |-> pga]>>

NoGsimNode == [uncertaintyType |-> None, branchSetID |-> None, trt |-> None,
               branches |-> <<>>]

\* the i-th branch id of the level at depth d
GsimId(d, i) == GsimIdOrder[d * MaxGsimBranches + i]

\* a level of kind gmpeModel with a new branchSetID, a new tectonic region
\* type, new branch ids, distinct GSIMs and the weights given
GsimNode(d, n, ws, pgas) ==
  [uncertaintyType |-> "gmpeModel", branchSetID |-> GsimSetIds[d + 1],
   trt |-> TrtOrder[d + 2],
   branches |-> [i \in 1..n |->
                   [branchID |-> GsimId(d, i), gsim |-> GsimNames[i],
                    weights |-> WeightNodes(ws[i], pgas[i])]]]

PlainGsimNode(d, n) ==
  GsimNode(d, n, [i \in 1..n |-> Share(n, i)], [i \in 1..n |-> 0 - 1])

CoreGsimNodes(d) ==
  UNION {{GsimNode(d, n, ws, pgas) :
            ws \in [1..n -> DefaultWeights], pgas \in [1..n -> ImtWeights]} :
         n \in 1..MaxGsimBranches}

\* levels that differ from a plain one in one respect: the kind, a
\* branchSetID or a tectonic region type used before or missing, a repeated
\* branch id or GSIM, a first weight with an IMT, an IMT declared twice
VariantGsimNodes(d) ==
  UNION {
    {[PlainGsimNode(d, n) EXCEPT !.uncertaintyType = "sourceModel"],
     [PlainGsimNode(d, n) EXCEPT !.trt = None],
     [PlainGsimNode(d, n) EXCEPT
        !.branches[1].weights = <<[imt |-> "PGA", value |-> WOne]>>],
     [PlainGsimNode(d, n) EXCEPT
        !.branches[1].weights = WeightNodes(@[1].value, @[1].value)
                                \o <<[imt |-> "PGA", value |-> @[1].value]>>]}
    \cup {[PlainGsimNode(d, n) EXCEPT !.branchSetID = GsimSetIds[k]] :
            k \in 1..d}
    \cup {[PlainGsimNode(d, n) EXCEPT !.trt = TrtOrder[k + 1]] : k \in 1..d}
    \cup UNION {{[PlainGsimNode(d, n) EXCEPT
                      !.branches[i].branchID = GsimIdOrder[k]] :
                     k \in 1..(d * MaxGsimBranches + i - 1)} :
                  i \in 1..n}
    \cup {[PlainGsimNode(d, n) EXCEPT !.branches[i].gsim = GsimNames[1]] :
            i \in 2..n}
    : n \in 1..MaxGsimBranches}

GsimNodes(d) == CoreGsimNodes(d) \cup VariantGsimNodes(d)

(***************************************************************************)
(* Construction of the GSIM tree as a state machine.                       *)
(***************************************************************************)
\* no tree derived yet: the operations act on the constructed tree
NoTree == [op |-> None, arg |-> {}, branches |-> <<>>]

GsimInit ==
  /\ gphase = "off"
  /\ gerror = ""
  /\ gargs = <<>>
  /\ gdepth = 0
  /\ gnode = NoGsimNode
  /\ gbranches = <<>>
  /\ gvalues = <<>>
  /\ gbsids = {}
  /\ gtrts = <<>>
  /\ bs_id_by_trt = <<>>
  /\ gtree = NoTree
  /\ gout = NoOut

\* no tree object is left by a constructor that raised
GsimFailed(message) ==
  /\ gphase' = "failed"
  /\ gerror' = message
  /\ gbranches' = <<>>
  /\ gvalues' = <<>>
  /\ gbsids' = {}
  /\ gtrts' = <<>>
  /\ bs_id_by_trt' = <<>>

\* GsimLogicTree.__init__ up to the call of _build_trts_branches
GsimNewSorted(trts) ==
  /\ gargs' = trts
  /\ IF duplicated(trts)
     THEN GsimFailed("The given tectonic region types are not distinct")
     ELSE /\ gphase' = "parsing"
          /\ UNCHANGED <<gerror, gbranches, gvalues, gbsids, gtrts,
                         bs_id_by_trt>>

GsimNew ==
  /\ gphase = "off"
  /\ \E types \in GsimArgs : GsimNewSorted(SortedTrts(types))
  /\ UNCHANGED <<gdepth, gnode, gtree, gout, smvars>>

\* the tree after one turn of the loop of _build_trts_branches returned r
GsimLevelDone(nd, r) ==
  IF r.error # "" THEN GsimFailed(r.error) /\ gdepth' = gdepth
  ELSE /\ gphase' = "parsing"
       /\ gerror' = ""
       /\ gdepth' = gdepth + 1
       /\ gbranches' = r.branches
       /\ gvalues' = r.values
       /\ gbsids' = gbsids \cup {nd.branchSetID}
       /\ gtrts' = IF nd.trt # None THEN Append(gtrts, nd.trt) ELSE gtrts
       /\ bs_id_by_trt' = DictPut(bs_id_by_trt, nd.trt, nd.branchSetID)

\* one turn of the loop of _build_trts_branches, on the next branching level
GsimBranchset(levels) ==
  /\ gphase = "parsing"
  /\ gdepth < MaxGsimLevels
  /\ \E nd \in levels :
       /\ gnode' = nd
       /\ GsimLevelDone(nd, build_branchset(nd, gargs, gbranches, gvalues))
  /\ UNCHANGED <<gargs, gtree, gout, smvars>>

\* if trts != ['*']: self.values = {trt: self.values[trt] for trt in trts}
ValuesFor(trts, values) ==
  IF trts = <<"*">> THEN values
  ELSE [i \in 1..Len(trts) |->
          [key |-> trts[i], attrs |-> ValuesOf(values, trts[i])]]

\* the end of _build_trts_branches and of __init__
GsimEnd ==
  /\ gphase = "parsing"
  /\ IF duplicated(gtrts)
     THEN GsimFailed("Found duplicated applyToTectonicRegionType")
     ELSE IF gargs # <<>> /\ gbranches = <<>>
     THEN GsimFailed("Could not find branches with attribute 'applyToTectonicRegionType'")
     ELSE /\ gphase' = "constructed"
          /\ gbranches' = SortedBranches(gbranches)
          /\ gvalues' = ValuesFor(gargs, gvalues)
          /\ UNCHANGED <<gerror, gbsids, gtrts, bs_id_by_trt>>
  /\ UNCHANGED <<gargs, gdepth, gnode, gtree, gout, smvars>>

(***************************************************************************)
(* GsimLogicTree: reduce, collapse, get_num_paths and __iter__.            *)
(***************************************************************************)
\* self.branches of the tree the operations act on: the tree reduce or
\* collapse returned last, the constructed tree before
TreeBranches == IF gtree.op = None THEN gbranches ELSE gtree.branches

\* a reduction that drops the branches of the other types
reduce_dropping(brs, trts) ==
  SelectSeq(brs, LAMBDA br : trts = {"*"} \/ br.trt \in trts)

\* GsimLogicTree.reduce: new.branches
reduce(brs, trts) ==
  IF trts = {"*"} THEN brs
  ELSE [i \in 1..Len(brs) |->
          BranchTuple(brs[i].trt, brs[i].id, brs[i].gsim, brs[i].weight,
                      brs[i].trt \in trts)]

\* itertools.groupby(self.branches, lambda b: b.trt): the index at which the
\* group that starts at i ends
RECURSIVE GroupEnd(_, _)
GroupEnd(brs, i) ==
  IF i < Len(brs) /\ brs[i + 1].trt = brs[i].trt THEN GroupEnd(brs, i + 1)
  ELSE i

\* the AvgGMPE object collapse builds from the branches i..j
AvgGMPE(brs, i, j) ==
  [gsim |-> "AvgGMPE",
   kwargs |-> [k \in 1..(j - i + 1) |->
                 [key |-> brs[i + k - 1].id, attrs |-> brs[i + k - 1].gsim]],
   weights |-> [k \in 1..(j - i + 1) |-> brs[i + k - 1].weight["weight"]]]

\* what collapse appends for the group i..j: the averaging branch, or br,
\* the variable of the loop over the group, which holds its last branch
CollapseGroup(brs, ids, i, j, bs_id) ==
  IF j > i /\ bs_id \in ids
  THEN BranchTuple(brs[i].trt, bs_id, AvgGMPE(brs, i, j),
                   sum([k \in 1..(j - i + 1) |-> brs[i + k - 1].weight]),
                   TRUE)
  ELSE brs[j]

RECURSIVE collapse_from(_, _, _)
CollapseTail(brs, ids, i, j) ==
  <<CollapseGroup(brs, ids, i, j, DictGet(bs_id_by_trt, brs[i].trt))>>
  \o collapse_from(brs, ids, j + 1)

collapse_from(brs, ids, i) ==
  IF i > Len(brs) THEN <<>> ELSE CollapseTail(brs, ids, i, GroupEnd(brs, i))

\* GsimLogicTree.collapse: new.branches
collapse(brs, branchset_ids) == collapse_from(brs, branchset_ids, 1)

\* GsimLogicTree.get_num_branches: the dict num, trt -> effective branches
RECURSIVE get_num_branches(_, _, _)
NumGroup(brs, num, i, j) ==
  get_num_branches(brs,
                   DictPut(num, brs[i].trt,
                           Cardinality({k \in i..j : brs[k].effective})),
                   j + 1)

get_num_branches(brs, num, i) ==
  IF i > Len(brs) THEN num ELSE NumGroup(brs, num, i, GroupEnd(brs, i))

\* for val in num_branches.values(): if val: num *= val
RECURSIVE TimesEffective(_, _)
TimesEffective(num, i) ==
  IF i > Len(num) THEN 1
  ELSE (IF num[i].attrs # 0 THEN num[i].attrs ELSE 1)
       * TimesEffective(num, i + 1)

\* the product with the test "if val" left out
RECURSIVE TimesAll(_, _)
TimesAll(num, i) ==
  IF i > Len(num) THEN 1 ELSE num[i].attrs * TimesAll(num, i + 1)

NumPathsAll(num_branches) ==
  IF SumSeq([i \in 1..Len(num_branches) |-> num_branches[i].attrs]) = 0
  THEN 0
  ELSE TimesAll(num_branches, 1)

NumPaths(num_branches) ==
  IF SumSeq([i \in 1..Len(num_branches) |-> num_branches[i].attrs]) = 0
  THEN 0
  ELSE TimesEffective(num_branches, 1)

\* GsimLogicTree.get_num_paths
get_num_paths(brs) == NumPaths(get_num_branches(brs, <<>>, 1))

\* ImtWeight.__mul__ with an ImtWeight: the keys of both
ImtWeight_mul(dic, other) ==
  [k \in DOMAIN dic \cup DOMAIN other |->
     ImtWeight_getitem(dic, k) * ImtWeight_getitem(other, k)]

\* ImtWeight.__mul__ with a float (__rmul__ is __mul__)
ImtWeight_rmul(dic, other) == [k \in DOMAIN dic |-> dic[k] * other]

\* the weight of a realization: the int 1 (no dic), or an ImtWeight whose
\* components are fractions of d
One == [dic |-> NoDic, d |-> 1]

\* weight *= branch.weight
TimesWeight(weight, dic) ==
  IF DOMAIN weight.dic = {}
  THEN [dic |-> ImtWeight_rmul(dic, weight.d), d |-> WOne]
  ELSE [dic |-> ImtWeight_mul(weight.dic, dic), d |-> weight.d * WOne]

RECURSIVE WeightOf(_, _, _)
WeightOf(chosen, weight, k) ==
  IF k > Len(chosen) THEN weight
  ELSE WeightOf(chosen, TimesWeight(weight, chosen[k].weight), k + 1)

\* [b for b in self.branches if b.trt == trt]
BranchesOfTrt(brs, trt) == SelectSeq(brs, LAMBDA b : b.trt = trt)

\* groups: one list of branches for each key of self.values
Groups(brs, values) ==
  [k \in 1..Len(values) |-> BranchesOfTrt(brs, values[k].key)]

\* itertools.product of a group and of the product of the groups after it
ProductWith(group, rest) ==
  [p \in 1..(Len(group) * Len(rest)) |->
     <<group[((p - 1) \div Len(rest)) + 1]>>
     \o rest[((p - 1) % Len(rest)) + 1]]

\* itertools.product(*groups), from the k-th group on
RECURSIVE product(_, _)
product(groups, k) ==
  IF k > Len(groups) THEN << <<>> >>
  ELSE ProductWith(groups[k], product(groups, k + 1))

\* the body of the loop of __iter__ for the i-th element of the product
GsimRlz(chosen, i) ==
  Realization([k \in 1..Len(chosen) |-> chosen[k].gsim],
              WeightOf(chosen, One, 1), i,
              [k \in 1..Len(chosen) |->
                 IF chosen[k].effective THEN chosen[k].id ELSE "@"],
              1)

GsimRlzs(prod) == [i \in 1..Len(prod) |-> GsimRlz(prod[i], i - 1)]

\* GsimLogicTree.__iter__
gsim_iter(brs, values) == GsimRlzs(product(Groups(brs, values), 1))

\* the branch ids in the order of strings: the ids of the file, then the
\* branch-set ids that collapse gives to its branches
PidOrder == GsimIdOrder \o GsimSetIds

\* the place of a path id, '_'.join(lt_path), among the sorted path ids:
\* "@" sorts before every branch id
RECURSIVE PidKey(_, _)
PidKey(lt_path, k) ==
  IF k > Len(lt_path) THEN 0
  ELSE (IF lt_path[k] = "@" THEN 0 ELSE Rank(PidOrder, lt_path[k]))
       * Pow(Len(PidOrder) + 1, Len(lt_path) - k)
       + PidKey(lt_path, k + 1)

\* baselib.general.groupby(rlzs, operator.attrgetter('pid')).values(): the
\* realizations sorted by path id, and the index at which the group that
\* starts at i ends
SortedByPid(rlzs) ==
  SortedBy(rlzs, [i \in 1..Len(rlzs) |-> PidKey(rlzs[i].lt_path, 1)])

RECURSIVE PidGroupEnd(_, _)
PidGroupEnd(rlzs, i) ==
  IF i < Len(rlzs) /\ rlzs[i + 1].lt_path = rlzs[i].lt_path
  THEN PidGroupEnd(rlzs, i + 1)
  ELSE i

\* sum(r.weight for r in group), the group being rlzs[i..j]: the weights
\* are products of as many branch weights, fractions of the same d
GroupWeight(rlzs, i, j) ==
  [dic |-> sum([k \in 1..(j - i + 1) |-> rlzs[i + k - 1].weight.dic]),
   d |-> rlzs[i].weight.d]

\* all(path == '@' for path in rlz.lt_path)
EmptyRlz(rlz) == \A k \in 1..Len(rlz.lt_path) : rlz.lt_path[k] = "@"

\* the loop of get_effective_rlzs over the groups, from the one that starts
\* at i on
RECURSIVE effective_from(_, _, _)
EffectiveGroup(rlzs, i, j, ordinal) ==
  IF EmptyRlz(rlzs[i]) THEN effective_from(rlzs, j + 1, ordinal)
  ELSE <<Realization(rlzs[i].value, GroupWeight(rlzs, i, j), ordinal,
                     rlzs[i].lt_path, j - i + 1)>>
       \o effective_from(rlzs, j + 1, ordinal + 1)

effective_from(rlzs, i, ordinal) ==
  IF i > Len(rlzs) THEN <<>>
  ELSE EffectiveGroup(rlzs, i, PidGroupEnd(rlzs, i), ordinal)

\* get_effective_rlzs(rlzs)
get_effective_rlzs(rlzs) == effective_from(SortedByPid(rlzs), 1, 0)

\* the arguments given to reduce and to collapse
ReduceArgs == {{"*"}} \cup SUBSET {TrtOrder[k + 1] : k \in 1..MaxGsimLevels}
CollapseArgs == SUBSET {GsimSetIds[k] : k \in 1..MaxGsimLevels}

\* what an operation on a GSIM tree returned
GsimResult(op, rlzs, num) == [op |-> op, rlzs |-> rlzs, num |-> num]

\* new = tree.reduce(trts), on the constructed tree
GsimReduce ==
  /\ gphase = "constructed"
  /\ \E trts \in ReduceArgs :
       gtree' = [op |-> "reduce", arg |-> trts,
                 branches |-> reduce(gbranches, trts)]
  /\ gout' = NoOut
  /\ UNCHANGED <<gphase, gerror, gargs, gdepth, gnode, gbranches, gvalues,
                 gbsids, gtrts, bs_id_by_trt, smvars>>

\* new = tree.collapse(branchset_ids), on the constructed tree
GsimCollapse ==
  /\ gphase = "constructed"
  /\ \E ids \in CollapseArgs :
       gtree' = [op |-> "collapse", arg |-> ids,
                 branches |-> collapse(gbranches, ids)]
  /\ gout' = NoOut
  /\ UNCHANGED <<gphase, gerror, gargs, gdepth, gnode, gbranches, gvalues,
                 gbsids, gtrts, bs_id_by_trt, smvars>>

\* list(tree), on the tree returned last
GsimIter ==
  /\ gphase = "constructed"
  /\ gout' = GsimResult("iter", gsim_iter(TreeBranches, gvalues), 0)
  /\ UNCHANGED <<gphase, gerror, gargs, gdepth, gnode, gbranches, gvalues,
                 gbsids, gtrts, bs_id_by_trt, gtree, smvars>>

\* tree.get_num_paths(), on the tree returned last
GsimNumPaths ==
  /\ gphase = "constructed"
  /\ gout' = GsimResult("get_num_paths", <<>>, get_num_paths(TreeBranches))
  /\ UNCHANGED <<gphase, gerror, gargs, gdepth, gnode, gbranches, gvalues,
                 gbsids, gtrts, bs_id_by_trt, gtree, smvars>>

\* get_effective_rlzs(tuple(tree)), on the tree returned last
GsimEffective ==
  /\ gphase = "constructed"
  /\ gout' = GsimResult("get_effective_rlzs",
                        get_effective_rlzs(gsim_iter(TreeBranches, gvalues)),
                        0)
  /\ UNCHANGED <<gphase, gerror, gargs, gdepth, gnode, gbranches, gvalues,
                 gbsids, gtrts, bs_id_by_trt, gtree, smvars>>

\* the weight of PGA in the levels given to the operations: none, or half
OpsImtWeights == {0 - 1, WOne \div 2}

\* levels of kind gmpeModel with even default weights
OpsNodes(d) ==
  UNION {{GsimNode(d, n, [i \in 1..n |-> Share(n, i)], pgas) :
            pgas \in [1..n -> OpsImtWeights]} :
         n \in 1..MaxGsimBranches}

(***************************************************************************)
(* taxonomy_mapping.  Weights are in units of 1/WOne; a pair (taxonomy,     *)
(* weight) is a tuple.                                                     *)
(***************************************************************************)
\* the placeholder of the unknown taxonomy, first in the array of taxonomies
Unknown == "?"

TaxonomyFiles == <<"id.csv", "split.csv", "off.csv", "rc.csv">>

Row(taxonomy, conversion, weight) ==
  [taxonomy |-> taxonomy, conversion |-> conversion, weight |-> weight]

\* add_defaults(hdf5.read_csv(filename, ...).array, weight=1.): the rows of
\* the association table
read_csv(filename) ==
  CASE filename = "id.csv" ->
         <<Row("RC", "RC", WOne), Row("MS", "MS", WOne)>>
    [] filename = "split.csv" ->
         <<Row("RC", "RC", WOne \div 2), Row("MS", "MS", WOne),
           Row("RC", "W", WOne \div 2)>>
    [] filename = "off.csv" ->
         <<Row("RC", "RC", WOne \div 2), Row("MS", "MS", WOne)>>
    [] OTHER -> <<Row("RC", "RC", WOne)>>

\* group_array(arr, 'taxonomy')[taxo]: the rows of the taxonomy, in order
RecsOf(arr, taxo) == SelectSeq(arr, LAMBDA rec : rec.taxonomy = taxo)

\* set(dic)
GroupKeys(arr) == {arr[i].taxonomy : i \in 1..Len(arr)}

\* taxonomies[1:]
Strip(taxonomies) == IF taxonomies = <<>> THEN <<>> ELSE Tail(taxonomies)

\* recs['weight'].sum()
WeightSum(recs) == SumSeq([i \in 1..Len(recs) |-> recs[i].weight])

\* [(rec['conversion'], rec['weight']) for rec in recs]
Conversions(recs) ==
  [i \in 1..Len(recs) |-> <<recs[i].conversion, recs[i].weight>>]

\* the mapping without the entry of the first taxonomy
TrivialStripped(taxonomies) ==
  [i \in 1..Len(Strip(taxonomies)) |-> <<<<Strip(taxonomies)[i], WOne>>>>]

\* [[(taxo, 1)] for taxo in taxonomies]
Trivial(taxonomies) ==
  [i \in 1..Len(taxonomies) |-> <<<<taxonomies[i], WOne>>>>]

\* what taxonomy_mapping returns or raises, with the files it read
Mapping(filename, taxonomies, err, missing, arr, lst, reads) ==
  [filename |-> filename, taxonomies |-> taxonomies, error |-> err,
   missing |-> missing, arr |-> arr, lst |-> lst, reads |-> reads]

\* the loop over enumerate(taxonomies, 1), from the idx-th on: [error, lst]
RECURSIVE MapLoop(_, _, _, _)
MapLoop(arr, taxonomies, idx, lst) ==
  IF idx > Len(taxonomies) THEN [error |-> "", lst |-> lst]
  ELSE IF Abs(WeightSum(RecsOf(arr, taxonomies[idx])) - WOne) > PRECISION
  THEN [error |-> "the weights do not sum up to 1 for " \o taxonomies[idx],
        lst |-> lst]
  ELSE MapLoop(arr, taxonomies, idx + 1,
               Append(lst, Conversions(RecsOf(arr, taxonomies[idx]))))

Mapped(filename, taxonomies, arr, r) ==
  IF r.error # ""
  THEN Mapping(filename, taxonomies, r.error, {}, <<>>, <<>>, <<filename>>)
  ELSE Mapping(filename, taxonomies, "", {}, arr, r.lst, <<filename>>)

\* the branch of taxonomy_mapping that reads the file
MapFile(filename, taxonomies, arr, stripped) ==
  IF Range(stripped) \ GroupKeys(arr) # {}
  THEN Mapping(filename, taxonomies,
               "The taxonomies are in the exposure but not in " \o filename,
               Range(stripped) \ GroupKeys(arr), <<>>, <<>>, <<filename>>)
  ELSE Mapped(filename, taxonomies, arr,
              MapLoop(arr, stripped, 1, <<<<<<Unknown, WOne>>>>>>))

taxonomy_mapping(filename, taxonomies) ==
  IF filename = None
  THEN Mapping(filename, taxonomies, "", {}, <<>>, Trivial(taxonomies), <<>>)
  ELSE MapFile(filename, taxonomies, read_csv(filename), Strip(taxonomies))

\* the taxonomies of the exposure
Taxonomies == {Unknown, "RC", "MS"}

MaxTaxonomies == 3

\* the arrays of taxonomies given: the ones of an exposure begin with the
\* placeholder
TaxonomyArrays ==
  UNION {[1..n -> Taxonomies] : n \in 0..MaxTaxonomies}

\* taxonomy_mapping(filename, taxonomies)
TaxonomyMapping ==
  /\ \E filename \in {None} \cup Range(TaxonomyFiles) :
       \E taxonomies \in TaxonomyArrays :
         tmap' = taxonomy_mapping(filename, taxonomies)
  /\ UNCHANGED <<phase, error, depth, node, treevars, num_samples, seed, rng,
                 out, ref, calls, h5, copy, sgroups, threads, gvars>>

(***************************************************************************)
(* sample_path called by threads: every call of numpy is a step, and the   *)
(* generator is the one of the process.                                    *)
(***************************************************************************)
\* tree.sample_path(s) is called: branchset = self.root_branchset
CallSamplePath(t) ==
  /\ phase = "constructed"
  /\ threads[t].pc = "idle"
  /\ \E s \in SampleSeeds :
       threads' = [threads EXCEPT
                     ![t] = [pc |-> "seed", seed |-> s,
                             branchset |-> root_branchset, branches |-> <<>>]]
  /\ UNCHANGED <<phase, error, depth, node, treevars, num_samples, seed, rng,
                 out, ref, calls, h5, copy, sgroups, tmap, gvars>>

\* sample: numpy.random.seed(seed)
SeedStep(t) ==
  /\ threads[t].pc = "seed"
  /\ rng' = RngSeed(threads[t].seed)
  /\ threads' = [threads EXCEPT ![t].pc = "choice"]
  /\ UNCHANGED <<phase, error, depth, node, treevars, num_samples, seed,
                 out, ref, calls, h5, copy, sgroups, tmap, gvars>>

\* the thread after sample returned [branch]: branches.append(branch);
\* branchset = branch.bset, and the test of the while loop
Drawn(th, branch_id, bset) ==
  [th EXCEPT !.branches = Append(@, branch_id),
             !.branchset = bset,
             !.pc = IF bset = 0 THEN "done" ELSE "seed"]

\* what the draw leaves: the generator and the thread
AfterChoice(t, drawn) ==
  /\ rng' = drawn.rng
  /\ threads' = [threads EXCEPT
                   ![t] = Drawn(@, drawn.objs[1],
                                BranchOf(branches, drawn.objs[1]).bset)]

\* sample: numpy.random.choice(len(weights), 1, p=weights) and the return
ChoiceStep(t) ==
  /\ threads[t].pc = "choice"
  /\ AfterChoice(t, Take(bsets[threads[t].branchset].branches, 1,
                         ChoiceN(BranchWeights(
                                   branches,
                                   bsets[threads[t].branchset].branches),
                                 1, rng)))
  /\ UNCHANGED <<phase, error, depth, node, treevars, num_samples, seed,
                 out, ref, calls, h5, copy, sgroups, tmap, gvars>>

vars == <<smvars, gvars>>

Init == SmInit /\ GsimInit

\* Construction from any level, full enumeration and the export/import.
Next ==
  \/ ParseBranchset(Nodes(depth, branches))
  \/ EndParse({0}, {0})
  \/ Iter
  \/ ToH5
  \/ FromH5
Spec == Init /\ [][Next]_vars

\* Construction, iteration and sampling with every seed and num_samples.
SampleNext ==
  \/ ParseBranchset(SampleNodes(depth, branches))
  \/ EndParse(0..MaxSamples, 0..MaxSeed)
  \/ Iter
  \/ Sample
SampleSpec == Init /\ [][SampleNext]_vars

\* Construction of trees with filters, their enumeration, and the source
\* groups of their realizations.
FilterNext ==
  \/ ParseBranchset(FilterNodes(depth, branches))
  \/ EndParse({0}, {0})
  \/ Iter
  \/ ApplyUncertainties
FilterSpec == Init /\ [][FilterNext]_vars

\* Construction of the GSIM tree from any level, with any argument.
GsimNext ==
  \/ GsimNew
  \/ GsimBranchset(GsimNodes(gdepth))
  \/ GsimEnd
GsimSpec == Init /\ [][GsimNext]_vars

\* Construction of the GSIM tree, then reduce, collapse, get_num_paths and
\* the enumeration.
GsimOpsNext ==
  \/ GsimNew
  \/ GsimBranchset(OpsNodes(gdepth))
  \/ GsimEnd
  \/ GsimReduce
  \/ GsimCollapse
  \/ GsimIter
  \/ GsimNumPaths
  \/ GsimEffective
GsimOpsSpec == Init /\ [][GsimOpsNext]_vars

\* Two threads that sample the one tree.
ThreadsNext ==
  \/ ParseBranchset(ThreadNodes(depth, branches))
  \/ EndParse({0}, {0})
  \/ \E t \in Threads : CallSamplePath(t)
  \/ \E t \in Threads : SeedStep(t)
  \/ \E t \in Threads : ChoiceStep(t)
ThreadsSpec == Init /\ [][ThreadsNext]_vars

\* The operations on a constructed tree, of source models or of GSIMs: a run
\* constructs one of the two trees and operates on it.
FrameNext ==
  \/ gphase = "off" /\ ParseBranchset(FrameNodes(depth, branches))
  \/ gphase = "off" /\ EndParse({0, 1}, {0})
  \/ gphase = "off" /\ Iter
  \/ gphase = "off" /\ Sample
  \/ gphase = "off" /\ ApplyUncertainties
  \/ depth = 0 /\ GsimNew
  \/ GsimBranchset(OpsNodes(gdepth))
  \/ GsimEnd
  \/ GsimReduce
  \/ GsimCollapse
  \/ GsimIter
  \/ GsimNumPaths
FrameSpec == Init /\ [][FrameNext]_vars

\* Calls of taxonomy_mapping.
TaxoNext == TaxonomyMapping

TaxoSpec == Init /\ [][TaxoNext]_vars

(***************************************************************************)
(* Properties of the source-model tree.                                    *)
(***************************************************************************)
\* list(tree) returned, or raised, on a tree that enumerates
Enumerated ==
  /\ phase = "constructed"
  /\ out.op = "iter"
  /\ num_samples = 0

RlzPaths(rlzs) == [i \in 1..Len(rlzs) |-> rlzs[i].lt_path]

\* the sum of the weights n / d of the realizations, over CommonDen
CommonDen == Pow(WOne, MaxLevels)

RECURSIVE SumWeights(_, _)
SumWeights(rlzs, i) ==
  IF i > Len(rlzs) THEN 0
  ELSE rlzs[i].weight.n * (CommonDen \div rlzs[i].weight.d)
       + SumWeights(rlzs, i + 1)

\* |total / CommonDen - 1.0| <= PRECISION / WOne
WithinTolerance(total) ==
  Abs(total - CommonDen) * WOne <= PRECISION * CommonDen

\* C1: the weights of the realizations that full enumeration yields on a
\* constructed tree sum to 1.0 within the tolerance.
C1_EnumerationWeightsSumToOne ==
  (Enumerated /\ ~out.raised) => WithinTolerance(SumWeights(out.rlzs, 1))

\* an enumeration that ended, of a tree of two levels each of which is off
\* 1.0 by the tolerance, and whose total is off by more
C1_Witness ==
  /\ Enumerated
  /\ ~out.raised
  /\ Len(bsets) = 2
  /\ Len(out.rlzs) = 4
  /\ ~WithinTolerance(SumWeights(out.rlzs, 1))

\* the root-to-leaf paths of the tree, as sequences of branch ids of length
\* up to the number of branch-sets
IsPath(p) ==
  /\ p[1] \in Range(bsets[root_branchset].branches)
  /\ \A k \in 1..(Len(p) - 1) :
       /\ BranchOf(branches, p[k]).bset # 0
       /\ p[k + 1] \in Range(bsets[BranchOf(branches, p[k]).bset].branches)
  /\ BranchOf(branches, p[Len(p)]).bset = 0

Paths ==
  {p \in UNION {[1..k -> {branches[i].branch_id : i \in 1..Len(branches)}] :
                  k \in 1..Len(bsets)} : IsPath(p)}

\* the place of a branch in its branch-set
PlaceOf(branch_id) ==
  CHOOSE i \in 1..Len(branches) :
    \E bs \in 1..Len(bsets) :
      /\ i <= Len(bsets[bs].branches)
      /\ bsets[bs].branches[i] = branch_id

\* p comes before q depth first, left to right
Before(p, q) ==
  \E k \in 1..Len(p) :
    /\ k <= Len(q)
    /\ \A m \in 1..(k - 1) : p[m] = q[m]
    /\ PlaceOf(p[k]) < PlaceOf(q[k])

\* C2: full enumeration of a constructed tree yields every root-to-leaf
\* path exactly once, depth first and left to right, with the ordinals 0, 1,
\* 2, ... in the order yielded, each path being the branch ids from the root
\* branch to the leaf branch.
C2_EnumerationCoversPathsInOrder ==
  Enumerated =>
    /\ ~out.raised
    /\ Range(RlzPaths(out.rlzs)) = Paths
    /\ \A i, j \in 1..Len(out.rlzs) :
         i < j => Before(out.rlzs[i].lt_path, out.rlzs[j].lt_path)
    /\ \A i \in 1..Len(out.rlzs) : out.rlzs[i].ordinal = i - 1

\* the enumeration of a constructed tree raised RecursionError
C2_Witness ==
  /\ Enumerated
  /\ out.raised

\* the product of the weights of the branches of a path (a weight w being
\* w / WOne, the product is this number over WOne^Len(path))
RECURSIVE PathProduct(_, _)
PathProduct(path, i) ==
  IF i > Len(path) THEN 1
  ELSE BranchOf(branches, path[i]).weight * PathProduct(path, i + 1)

WeightsOf(bs) ==
  [i \in 1..Len(bsets[bs].branches) |->
     BranchOf(branches, bsets[bs].branches[i]).weight]

\* root weights 0.6 / 0.4, each root branch with the same second level of
\* weights 0.5 / 0.5
ScenarioA ==
  /\ Len(bsets) = 2
  /\ WeightsOf(1) = <<12, 8>>
  /\ WeightsOf(2) = <<10, 10>>
  /\ \A i \in 1..Len(branches) :
       branches[i].bset = IF branches[i].branch_id \in Range(bsets[1].branches)
                          THEN 2 ELSE 0

\* the weight n / d is tenths / 10
IsTenths(weight, tenths) == weight.n * 10 = tenths * weight.d

\* C3: the weight of every enumerated realization is the product of the
\* weights of the branches of its path; root weights 0.6 / 0.4 with a second
\* level 0.5 / 0.5 under each give 4 realizations of weights 0.3, 0.3, 0.2,
\* 0.2 in that order.
C3_WeightIsProductOfPath ==
  Enumerated =>
    /\ \A i \in 1..Len(out.rlzs) :
         out.rlzs[i].weight = Ratio(PathProduct(out.rlzs[i].lt_path, 1),
                                    Pow(WOne, Len(out.rlzs[i].lt_path)))
    /\ ScenarioA =>
         /\ Len(out.rlzs) = 4
         /\ IsTenths(out.rlzs[1].weight, 3)
         /\ IsTenths(out.rlzs[2].weight, 3)
         /\ IsTenths(out.rlzs[3].weight, 2)
         /\ IsTenths(out.rlzs[4].weight, 2)

C3_Witness ==
  /\ Enumerated
  /\ ScenarioA
  /\ Len(out.rlzs) = 4
  /\ IsTenths(out.rlzs[4].weight, 2)

\* the sum of the weights a branching level declares
DeclaredSum(nd) ==
  SumSeq([i \in 1..Len(nd.branches) |-> nd.branches[i].weight])

\* C4: construction fails whenever the declared weights of a branch-set sum
\* to a value off 1.0 by more than the tolerance (0.9, say), so the weights
\* of every branch-set of a constructed tree sum to 1.0 within the tolerance.
C4_WeightsOffFailConstruction ==
  /\ Abs(DeclaredSum(node) - WOne) > PRECISION /\ node # NoNode
       => phase = "failed"
  /\ phase = "constructed" =>
       \A bs \in 1..Len(bsets) :
         Abs(SumSeq(WeightsOf(bs)) - WOne) <= PRECISION

\* a second level whose weights sum to 0.9 was refused for that
C4_Witness ==
  /\ phase = "failed"
  /\ depth = 1
  /\ DeclaredSum(node) = 18
  /\ error = "branchset weights don't sum up to 1.0"

\* a parsing step: parse_branchset called on the level node'
ParseStep == phase = "parsing" /\ phase' # "constructed" /\ node' # NoNode

\* the level declares a branch id twice, or one that the tree has
RepeatsId(nd, brs) ==
  \/ \E i \in 1..Len(nd.branches) : Defined(brs, nd.branches[i].branchID)
  \/ \E i, j \in 1..Len(nd.branches) :
       i < j /\ nd.branches[i].branchID = nd.branches[j].branchID

\* C5: construction fails whenever two branches of the tree, of the same
\* branch-set or not, carry the same branch id; the branch ids of a
\* constructed tree are unique tree-wide.
C5_DuplicateBranchIdFails ==
  [][/\ ParseStep /\ RepeatsId(node', branches) => phase' = "failed"
     /\ phase' = "constructed" =>
          \A i, j \in 1..Len(branches') :
            i < j => branches'[i].branch_id # branches'[j].branch_id]_vars

\* a second level was refused for a branch id of the first level
C5_Witness ==
  /\ phase = "failed"
  /\ depth = 1
  /\ error = "branchID is not unique"
  /\ \A i, j \in 1..Len(node.branches) :
       i < j => node.branches[i].branchID # node.branches[j].branchID

\* the kind is not one the depth allows
WrongKind(d, uncertainty_type) ==
  IF d = 0 THEN uncertainty_type # "sourceModel"
  ELSE uncertainty_type \in {"sourceModel", "gmpeModel"}

\* C6: construction fails unless the branch-set at depth 0 is of kind
\* sourceModel, and fails if a branch-set at depth > 0 is of kind sourceModel
\* or gmpeModel.
C6_KindByDepth ==
  [][ParseStep /\ WrongKind(depth, node'.uncertaintyType)
       => phase' = "failed"]_vars

\* a level of kind gmpeModel was refused below the root
C6_Witness ==
  /\ phase = "failed"
  /\ depth >= 1
  /\ node.uncertaintyType = "gmpeModel"
  /\ error = "uncertainty of type gmpeModel is not allowed in source model logic tree"

\* C9: a tree filled from the export of a constructed tree enumerates the
\* same realizations as the tree exported: same paths, same weights, same
\* order.
C9_RoundTripKeepsEnumeration ==
  copy # NoCopy =>
    iter_enumerate(copy.branches, copy.bsets, copy.root_branchset)
      = iter_enumerate(branches, bsets, root_branchset)

\* the copy of a tree of three levels, none with applyToBranches, whose
\* root branches lead to the third level
C9_Witness ==
  /\ copy # NoCopy
  /\ Len(bsets) = 3
  /\ \A i \in 1..Len(bsetdict) : bsetdict[i].attrs.applyToBranches = <<>>
  /\ \E i \in 1..Len(branches) :
       /\ branches[i].bset = 2
       /\ copy.branches[i].bset = 3

\* the realizations __iter__ makes of the paths of an enumeration
RlzsOfPaths(paths) ==
  [k \in 1..Len(paths) |->
     Realization(BranchOf(branches, paths[k].flat_path[1]).value,
                 paths[k].weight, k - 1, paths[k].flat_path, 1)]

\* C7: sampling is deterministic in the seed: on one constructed tree two
\* calls of sample_path with the same seed return the same path, and two
\* iterations with the same num_samples and seed yield the same sequence of
\* realizations, whatever calls were made in between.  (ref is the first
\* call that returned and out the last one: any calls lie between them.)
C7_SamplingDeterministicInSeed ==
  (/\ phase = "constructed"
   /\ out.op # None
   /\ out.op = ref.op
   /\ out.seed = ref.seed) => out = ref

\* the third call on a tree of two levels or more samples a path with the
\* seed of the first call
C7_Witness ==
  /\ phase = "constructed"
  /\ calls >= 3
  /\ out.op = "sample"
  /\ ref.op = "sample"
  /\ out.seed = ref.seed
  /\ Len(out.path) >= 2
  /\ out.path = ref.path

\* C8: iterating a tree with num_samples > 0 yields num_samples
\* realizations, the i-th (from 0) with the path that sample_path returns
\* for seed + i and the weight 1 / num_samples; with num_samples = 0 it
\* yields the sequence of the full enumeration.
C8_IterationSamplesOrEnumerates ==
  (out.op = "iter" /\ phase \in {"constructed", "hung"}) =>
    IF num_samples > 0
    THEN /\ phase = "constructed"
         /\ Len(out.rlzs) = num_samples
         /\ \A i \in 1..Len(out.rlzs) :
              /\ \A r \in RngStates :
                   sample_path(branches, bsets, root_branchset,
                               seed + (i - 1), r).branches
                     = out.rlzs[i].lt_path
              /\ out.rlzs[i].weight.n * num_samples = out.rlzs[i].weight.d
    ELSE out.rlzs = RlzsOfPaths(enumerate_paths(branches, bsets,
                                                root_branchset).paths)

\* an iteration with num_samples > 0 that does not end: sample_path came
\* back to a branch-set it had left
C8_Witness ==
  /\ phase = "hung"
  /\ out.op = "iter"
  /\ num_samples > 0

(***************************************************************************)
(* Properties of the GSIM tree.                                            *)
(***************************************************************************)
\* the keys of the composite weights of a level: "weight" and every IMT
\* that a branch of the level declares
KeysOf(nd) ==
  {"weight"} \cup
  (UNION {{nd.branches[i].weights[k].imt :
             k \in 1..Len(nd.branches[i].weights)} :
          i \in 1..Len(nd.branches)} \ {None})

\* the weight a branch declares for the key, or its default weight
Component(branch, key) ==
  IF \E k \in 1..Len(branch.weights) : branch.weights[k].imt = key
  THEN branch.weights[CHOOSE k \in 1..Len(branch.weights) :
                        branch.weights[k].imt = key].value
  ELSE branch.weights[1].value

ComponentSum(nd, key) ==
  SumSeq([i \in 1..Len(nd.branches) |-> Component(nd.branches[i], key)])

\* C10: for every branch-set of a constructed GSIM tree and every key of
\* the composite weights of its branches (the default key and every IMT
\* that a branch declares), the weights of the branches for the key, a
\* branch without the key counting with its default weight, sum to 1 within
\* the tolerance; construction fails otherwise.
C10_ImtWeightsSumToOne ==
  (/\ gnode # NoGsimNode
   /\ \E key \in KeysOf(gnode) :
        Abs(ComponentSum(gnode, key) - WOne) > PRECISION)
    => gphase = "failed"

\* a constructed tree whose last branch-set has two branches, the first
\* with the default weight only, the weights for PGA summing to 1.5
C10_Witness ==
  /\ gphase = "constructed"
  /\ Len(gnode.branches) = 2
  /\ Len(gnode.branches[1].weights) = 1
  /\ ComponentSum(gnode, "weight") = WOne
  /\ ComponentSum(gnode, "PGA") = 30
  /\ \E i \in 1..Len(gbranches) : gbranches[i].id = gnode.branches[2].branchID

\* the branch ids of a list of branches or of branch nodes
GsimIdsOf(brs) == {brs[i].id : i \in 1..Len(brs)}
NodeIdsOf(nd) == {nd.branches[i].branchID : i \in 1..Len(nd.branches)}

\* the level given repeats a branch id, within itself or from the branches
\* the tree holds already
RepeatsGsimId(nd, brs) ==
  \/ Cardinality(NodeIdsOf(nd)) < Len(nd.branches)
  \/ NodeIdsOf(nd) \cap GsimIdsOf(brs) # {}

\* C11: construction of a GSIM tree fails as soon as a branching level
\* brings a branch id that another branch carries already, in the same
\* branch-set or in a branch-set of another tectonic region type.
C11_GsimDuplicateBranchIdFails ==
  [][(gphase = "parsing" /\ gnode' # gnode
      /\ RepeatsGsimId(gnode', gbranches))
     => gphase' = "failed"]_vars

\* a constructed tree with two branches of different tectonic region types
\* and the same branch id
C11_Witness ==
  /\ gphase = "constructed"
  /\ \E i, j \in 1..Len(gbranches) :
       /\ gbranches[i].trt # gbranches[j].trt
       /\ gbranches[i].id = gbranches[j].id

\* the tectonic region types of the branches of a tree, in order, and the
\* sizes of their groups
TreeTrts(brs) ==
  SelectSeq(TrtOrder, LAMBDA t : \E i \in 1..Len(brs) : brs[i].trt = t)

GroupSize(brs, trt) == Cardinality({i \in 1..Len(brs) : brs[i].trt = trt})

\* the number of ways to choose one branch in each group after the k-th
RECURSIVE Stride(_, _, _)
Stride(brs, trts, k) ==
  IF k >= Len(trts) THEN 1
  ELSE GroupSize(brs, trts[k + 1]) * Stride(brs, trts, k + 1)

\* the branch of the k-th group in the i-th element of the product, the
\* last group turning fastest
ChosenAt(brs, trts, k, i) ==
  BranchesOfTrt(brs, trts[k])[
    ((i \div Stride(brs, trts, k)) % GroupSize(brs, trts[k])) + 1]

\* the product of the weights the branches chosen have for the key
RECURSIVE ChosenProduct(_, _, _, _, _)
ChosenProduct(brs, trts, i, key, k) ==
  IF k > Len(trts) THEN 1
  ELSE ImtWeight_getitem(ChosenAt(brs, trts, k, i).weight, key)
       * ChosenProduct(brs, trts, i, key, k + 1)

ChosenKeys(brs, trts, i) ==
  UNION {DOMAIN ChosenAt(brs, trts, k, i).weight : k \in 1..Len(trts)}

\* the realization is the i-th element of the product of the groups
IsProductRlz(rlz, brs, trts, i) ==
  /\ rlz.ordinal = i
  /\ Len(rlz.lt_path) = Len(trts)
  /\ \A k \in 1..Len(trts) :
       rlz.lt_path[k] = IF ChosenAt(brs, trts, k, i).effective
                        THEN ChosenAt(brs, trts, k, i).id
                        ELSE "@"
  /\ rlz.weight.d = Pow(WOne, Len(trts))
  /\ DOMAIN rlz.weight.dic = ChosenKeys(brs, trts, i)
  /\ \A key \in ChosenKeys(brs, trts, i) :
       rlz.weight.dic[key] = ChosenProduct(brs, trts, i, key, 1)

IsProduct(rlzs, brs, trts) ==
  /\ Len(rlzs) = Stride(brs, trts, 0)
  /\ \A i \in 1..Len(rlzs) : IsProductRlz(rlzs[i], brs, trts, i - 1)

\* C12: the enumeration of a GSIM tree yields one realization for every
\* element of the Cartesian product of the groups of its branches by
\* tectonic region type, with the ordinals 0, 1, 2, ... in the order of the
\* product, the weight being the product of the composite weights of the
\* branches chosen and the path holding the id of each branch chosen, or
\* "@" for a branch that is not effective.
C12_GsimEnumerationIsProduct ==
  (gphase = "constructed" /\ gout.op = "iter")
    => IsProduct(gout.rlzs, TreeBranches, TreeTrts(TreeBranches))

\* the enumeration of a reduced tree of two groups of two branches, with a
\* weight for PGA and a branch that is not effective
C12_Witness ==
  /\ gphase = "constructed"
  /\ gout.op = "iter"
  /\ gtree.op = "reduce"
  /\ Len(gout.rlzs) = 4
  /\ "PGA" \in DOMAIN gout.rlzs[1].weight.dic
  /\ \E k \in 1..2 : gout.rlzs[4].lt_path[k] = "@"
  /\ \E k \in 1..2 : gout.rlzs[4].lt_path[k] # "@"
  /\ IsProduct(gout.rlzs, TreeBranches, TreeTrts(TreeBranches))

\* the number of effective branches of a tectonic region type
EffectiveCount(brs, trt) ==
  Cardinality({i \in 1..Len(brs) : brs[i].trt = trt /\ brs[i].effective})

\* the product of the counts that are not 0, from the k-th type on
RECURSIVE CountProduct(_, _)
CountProduct(brs, k) ==
  IF k > Len(TrtOrder) THEN 1
  ELSE (IF EffectiveCount(brs, TrtOrder[k]) > 0
        THEN EffectiveCount(brs, TrtOrder[k]) ELSE 1)
       * CountProduct(brs, k + 1)

ExpectedNumPaths(brs) ==
  IF \A i \in 1..Len(brs) : ~brs[i].effective THEN 0
  ELSE CountProduct(brs, 1)

\* two tectonic region types, each with exactly two effective branches
TwoByTwo(brs) ==
  /\ Len(brs) = 4
  /\ \A i \in 1..4 : brs[i].effective
  /\ \A i \in 1..4 : EffectiveCount(brs, brs[i].trt) = 2

\* C13: get_num_paths on a GSIM tree, original, reduced or collapsed,
\* returns the product of the numbers of effective branches of the tectonic
\* region types that have one, and 0 when no branch is effective; 4 for
\* two tectonic region types of two effective branches each.
C13_NumPathsIsProductOfEffectiveCounts ==
  (gphase = "constructed" /\ gout.op = "get_num_paths")
    => /\ gout.num = ExpectedNumPaths(TreeBranches)
       /\ TwoByTwo(TreeBranches) => gout.num = 4

\* get_num_paths returned 2 on a reduced tree of two groups of two
\* branches, one group being not effective
C13_Witness ==
  /\ gphase = "constructed"
  /\ gout.op = "get_num_paths"
  /\ gtree.op = "reduce"
  /\ Len(gtree.branches) = 4
  /\ \E i \in 1..4 : ~gtree.branches[i].effective
  /\ gout.num = 2

\* the branch list the tree given has for one tectonic region type, when
\* the branch-sets named are collapsed: one effective averaging branch
\* over the models and weights of the group, or the group as it is
IsAverageOf(br, group) ==
  /\ br.effective
  /\ br.trt = group[1].trt
  /\ br.gsim.gsim = "AvgGMPE"
  /\ [k \in 1..Len(group) |-> br.gsim.kwargs[k].attrs]
       = [k \in 1..Len(group) |-> group[k].gsim]
  /\ br.gsim.weights = [k \in 1..Len(group) |-> group[k].weight["weight"]]

CollapsedAs(new, group, ids) ==
  IF Len(group) > 1 /\ DictGet(bs_id_by_trt, group[1].trt) \in ids
  THEN Len(new) = 1 /\ IsAverageOf(new[1], group)
  ELSE new = group

\* C14: collapse(branchset_ids) returns a tree whose branches are, group
\* by group in the order of the tectonic region types, one effective
\* averaging branch over all the models and weights of the group when the
\* id of its branch-set is given and the group has more than one branch,
\* and otherwise all the branches of the group, unchanged and in order.
C14_CollapseKeepsOtherGroups ==
  (gphase = "constructed" /\ gtree.op = "collapse")
    => /\ TreeTrts(gtree.branches) = TreeTrts(gbranches)
       /\ \A k \in 1..Len(TreeTrts(gbranches)) :
            CollapsedAs(BranchesOfTrt(gtree.branches,
                                      TreeTrts(gbranches)[k]),
                        BranchesOfTrt(gbranches, TreeTrts(gbranches)[k]),
                        gtree.arg)

\* a tree of two groups of two branches collapsed on the branch-set of its
\* first group only
C14_Witness ==
  /\ gphase = "constructed"
  /\ gtree.op = "collapse"
  /\ Len(gbranches) = 4
  /\ TwoByTwo(gbranches)
  /\ gtree.arg = {DictGet(bs_id_by_trt, gbranches[1].trt)}
  /\ IsAverageOf(gtree.branches[1], BranchesOfTrt(gbranches, gbranches[1].trt))

\* the branches are those of the original, in order, a branch being
\* effective exactly when its tectonic region type is in the subset ("*"
\* alone standing for no reduction)
ReducedFrom(new, brs, trts) ==
  /\ Len(new) = Len(brs)
  /\ \A i \in 1..Len(brs) :
       /\ new[i].trt = brs[i].trt
       /\ new[i].id = brs[i].id
       /\ new[i].gsim = brs[i].gsim
       /\ new[i].weight = brs[i].weight
       /\ new[i].effective = IF trts = {"*"} THEN brs[i].effective
                             ELSE brs[i].trt \in trts

\* the product of the weights that the effective branches chosen have for
\* the key, over WOne for each of them
EffectiveTimes(br, key, rest) ==
  IF br.effective
  THEN Ratio(ImtWeight_getitem(br.weight, key) * rest.n, WOne * rest.d)
  ELSE rest

RECURSIVE EffectiveProduct(_, _, _, _, _)
EffectiveProduct(brs, trts, i, key, k) ==
  IF k > Len(trts) THEN Ratio(1, 1)
  ELSE EffectiveTimes(ChosenAt(brs, trts, k, i), key,
                      EffectiveProduct(brs, trts, i, key, k + 1))

\* the component of the weight of a realization for the key, as a fraction
ComponentOf(weight, key) ==
  IF DOMAIN weight.dic = {} THEN Ratio(1, weight.d)
  ELSE Ratio(ImtWeight_getitem(weight.dic, key), weight.d)

SameRatio(a, b) == a.n * b.d = b.n * a.d

\* the weight and the path of the i-th realization count the effective
\* branches only
CountsEffectiveOnly(rlz, brs, trts, i) ==
  /\ \A key \in {"weight", "PGA"} :
       SameRatio(ComponentOf(rlz.weight, key),
                 EffectiveProduct(brs, trts, i, key, 1))
  /\ \A k \in 1..Len(trts) :
       ~ChosenAt(brs, trts, k, i).effective => rlz.lt_path[k] = "@"

\* C15: the tree reduce(trts) returns keeps every branch of the original,
\* a branch being effective exactly when its tectonic region type is in
\* trts, and the branches that are not effective do not count: the weight
\* of each realization enumerated is the product of the weights of its
\* effective branches only, and its path holds "@" for the others.
C15_ReduceExcludesNonEffective ==
  (gphase = "constructed" /\ gtree.op = "reduce")
    => /\ ReducedFrom(gtree.branches, gbranches, gtree.arg)
       /\ gout.op = "iter" =>
            \A i \in 1..Len(gout.rlzs) :
              CountsEffectiveOnly(gout.rlzs[i], gtree.branches,
                                  TreeTrts(gtree.branches), i - 1)

\* the enumeration of a tree of two groups of two branches reduced to the
\* tectonic region type of its first group
C15_Witness ==
  /\ gphase = "constructed"
  /\ gtree.op = "reduce"
  /\ gout.op = "iter"
  /\ Len(gout.rlzs) = 4
  /\ TwoByTwo(gbranches)
  /\ gtree.arg = {gbranches[1].trt}
  /\ gout.rlzs[1].lt_path = <<gbranches[1].id, "@">>

(***************************************************************************)
(* Properties of the filters and of applyToBranches.                       *)
(***************************************************************************)
\* the source model files of the branches parsed so far
ScannedFiles(brs) ==
  {brs[i].value.text : i \in {j \in 1..Len(brs) : ~brs[j].value.isnum}}

KnownTrts(brs) == UNION {FileData(f).trts : f \in ScannedFiles(brs)}
KnownTypes(brs) == UNION {FileData(f).types : f \in ScannedFiles(brs)}
KnownIds(brs) == UNION {Range(FileData(f).ids) : f \in ScannedFiles(brs)}

\* the values the filters of the level name that no scanned model has
UnknownOf(filters, key, known) ==
  IF key \notin DOMAIN filters THEN {}
  ELSE IF key = "applyToSources" THEN Range(filters[key]) \ known
  ELSE {filters[key]} \ known

UnknownTrts(nd, brs) ==
  UnknownOf(nd.filters, "applyToTectonicRegionType", KnownTrts(brs))
UnknownTypes(nd, brs) ==
  UnknownOf(nd.filters, "applyToSourceType", KnownTypes(brs))
UnknownIds(nd, brs) ==
  UnknownOf(nd.filters, "applyToSources", KnownIds(brs))

RefersToUnknown(nd, brs) ==
  UnknownTrts(nd, brs) \cup UnknownTypes(nd, brs) \cup UnknownIds(nd, brs)
    # {}

\* the error names a value that the level refers to and no model has
NamesUnknown(message, nd, brs) ==
  \/ \E v \in UnknownTrts(nd, brs) :
       message = "source models don't define sources of tectonic region type '"
                 \o v \o "'"
  \/ \E v \in UnknownTypes(nd, brs) :
       message = "source models don't define sources of type '" \o v \o "'"
  \/ \E v \in UnknownIds(nd, brs) :
       message = "source with id '" \o v
                 \o "' is not defined in source models"

\* the other errors of validate_filters
OtherFilterErrors ==
  {"filters are not allowed on source model uncertainty",
   "only one filter is allowed per branchset",
   "must define 'applyToSources' with only one source id",
   "must define either 'applyToSources' or 'applyToSourceType'",
   "applyToBranch must be specified together with applyToSources"}

\* the statement of C16 as the specification has it: construction fails
\* with an error naming the offending value whenever a filter refers to a
\* source id, a tectonic region type or a source type that no source model
\* scanned at the levels before has.
C16_AsStated ==
  [][(ParseStep /\ RefersToUnknown(node', branches))
       => /\ phase' = "failed"
          /\ NamesUnknown(error', node', branches)]_vars

\* C16: construction fails whenever a filter of a branch-set refers to a
\* source id, a tectonic region type or a source type that no source model
\* scanned at the levels before has; the error names the offending value
\* unless validate_filters raises first one of its other errors (a filter
\* on sourceModel, more than one filter, the filter that the kind requires
\* is missing, applyToSources without applyToBranches).
C16_UnknownFilterValueFails ==
  [][(ParseStep /\ RefersToUnknown(node', branches))
       => /\ phase' = "failed"
          /\ \/ NamesUnknown(error', node', branches)
             \/ error' \in OtherFilterErrors]_vars

\* a level below the root was refused for the source id s9, which no
\* source model scanned has
C16_Witness ==
  /\ phase = "failed"
  /\ depth = 1
  /\ "applyToSources" \in DOMAIN node.filters
  /\ error = "source with id 's9' is not defined in source models"

\* the only filter is applyToSources, with one source id
SingleSource(filters) ==
  /\ DOMAIN filters = {"applyToSources"}
  /\ Len(filters["applyToSources"]) = 1

\* C17: construction fails for a branch-set of an absolute uncertainty kind
\* (maxMagGRAbsolute, abGRAbsolute, incrementalMFDAbsolute,
\* simpleFaultDipAbsolute, simpleFaultGeometryAbsolute,
\* complexFaultGeometryAbsolute, characteristicFaultGeometryAbsolute)
\* unless its only filter is applyToSources naming exactly one source id.
C17_AbsoluteKindsNeedOneSource ==
  [][(/\ ParseStep
      /\ node'.uncertaintyType \in AbsoluteKinds
      /\ ~SingleSource(node'.filters))
       => phase' = "failed"]_vars

\* a constructed tree with a branch-set of kind incrementalMFDAbsolute that
\* has no filter
C17_Witness ==
  /\ phase = "constructed"
  /\ \E i \in 1..Len(bsets) :
       /\ bsets[i].uncertainty_type = "incrementalMFDAbsolute"
       /\ bsets[i].filters = NoFilters

\* the branch named is not a branch of an earlier level without a child
NotOpenEnd(brs, branch_id) ==
  \/ ~Defined(brs, branch_id)
  \/ BranchOf(brs, branch_id).bset # 0

\* the branches whose child is the branch-set
ParentsOf(brs, bset) ==
  {brs[i].branch_id : i \in {j \in 1..Len(brs) : brs[j].bset = bset}}

\* C18: a branch-set below the root with applyToBranches becomes the child
\* of exactly the branches named, each of which must be a branch of an
\* earlier branching level without a child branch-set, construction failing
\* if a branch named is not defined or has a child; without applyToBranches
\* it becomes the child of every branch of the branch-set of the level
\* before.
C18_ApplyToBranchesAttaches ==
  [][(ParseStep /\ depth >= 1)
       => /\ (\E b \in Range(node'.applyToBranches) : NotOpenEnd(branches, b))
               => phase' = "failed"
          /\ phase' = "parsing"
               => ParentsOf(branches', Len(bsets'))
                    = IF node'.applyToBranches # <<>>
                      THEN Range(node'.applyToBranches)
                      ELSE Range(previous_branches)]_vars

\* a constructed tree in which a branch-set is the child of one of its own
\* branches
C18_Witness ==
  /\ phase = "constructed"
  /\ \E i \in 1..Len(branches) :
       /\ branches[i].bset # 0
       /\ branches[i].branch_id \in Range(bsets[branches[i].bset].branches)

(***************************************************************************)
(* apply_uncertainties.                                                    *)
(***************************************************************************)
\* apply_uncertainties was called
WasApplied == sgroups.fname # None

\* the source ids of the extension the branch of an extendModel branch-set
\* names
ExtraIds(br) == SourceIdsOf(read_source_models(br.value.text))

\* the ids the extension of the branch has in common with the base file
Colliding(br, fname) ==
  ExtraIds(br) \cap SourceIdsOf(read_source_models(fname))

\* the branch is one of a branch-set of the kind
InKind(branch_id, kind) ==
  \E k \in 1..Len(bsets) :
    /\ branch_id \in Range(bsets[k].branches)
    /\ bsets[k].uncertainty_type = kind

\* the positions of the path that select a branch of an extendModel
\* branch-set whose extension collides with the base file
Collisions(ltpath, fname) ==
  {k \in 1..Len(ltpath) :
     /\ InKind(ltpath[k], "extendModel")
     /\ Colliding(BranchOf(branches, ltpath[k]), fname) # {}}

\* every source of every group
AllSources(groups) ==
  UNION {Range(groups[i].sources) : i \in 1..Len(groups)}

\* no perturbation was applied to any source
Unperturbed(groups) ==
  \A src \in AllSources(groups) : src.applied = <<>> /\ ~src.recounted

\* C19: when the path given to apply_uncertainties selects a branch of an
\* extendModel branch-set whose source file contains a source id of the base
\* source file, the call fails with InvalidFile, the error names the ids the
\* first such file has in common with the base file, and no uncertainty has
\* been applied to any source.
C19_CollisionFailsBeforePerturbing ==
  (WasApplied /\ Collisions(sgroups.ltpath, sgroups.fname) # {}) =>
    /\ sgroups.error = "InvalidFile"
    /\ \E k \in Collisions(sgroups.ltpath, sgroups.fname) :
         /\ \A j \in Collisions(sgroups.ltpath, sgroups.fname) : k <= j
         /\ sgroups.common
              = Colliding(BranchOf(branches, sgroups.ltpath[k]),
                          sgroups.fname)
    /\ Unperturbed(sgroups.src_groups)

\* a path with a perturbation collected before the colliding extension
C19_Witness ==
  /\ WasApplied
  /\ sgroups.error = "InvalidFile"
  /\ sgroups.common = {"s1"}
  /\ Len(sgroups.ltpath) = 3
  /\ InKind(sgroups.ltpath[2], "maxMagGRRelative")
  /\ 3 \in Collisions(sgroups.ltpath, sgroups.fname)
\* the branch-set the branch is one of
BranchSetOf(branch_id) ==
  bsets[CHOOSE k \in 1..Len(bsets) : branch_id \in Range(bsets[k].branches)]

\* the branch of the path asks for a perturbation of the sources
Perturbs(branch_id) ==
  /\ Defined(branches, branch_id)
  /\ ~InKind(branch_id, "sourceModel")
  /\ ~InKind(branch_id, "extendModel")

\* the branches of the path that ask for a perturbation, in path order
PerturbingBranches(ltpath) == SelectSeq(ltpath, LAMBDA b : Perturbs(b))

\* the filter of the branch-set matches the source
Matches(filters, src) ==
  /\ "applyToTectonicRegionType" \in DOMAIN filters
       => filters["applyToTectonicRegionType"] = src.tectonic_region_type
  /\ "applyToSourceType" \in DOMAIN filters
       => filters["applyToSourceType"] = src.type
  /\ "applyToSources" \in DOMAIN filters
       => src.source_id \in Range(filters["applyToSources"])

\* the path's branches whose perturbation is for the source
BranchesFor(ltpath, src) ==
  SelectSeq(PerturbingBranches(ltpath),
            LAMBDA b : Matches(BranchSetOf(b).filters, src))

\* the source carries each perturbation meant for it once, and no other
PerturbedOnce(ltpath, src) ==
  /\ Len(src.applied) = Len(BranchesFor(ltpath, src))
  /\ \A k \in 1..Len(src.applied) :
       /\ src.applied[k].uncertainty_type
            = BranchSetOf(BranchesFor(ltpath, src)[k]).uncertainty_type
       /\ src.applied[k].value
            = BranchOf(branches, BranchesFor(ltpath, src)[k]).value

\* the number of applications made in the group
RECURSIVE Applications(_, _)
Applications(sources, k) ==
  IF k > Len(sources) THEN 0
  ELSE Len(sources[k].applied) + Applications(sources, k + 1)

\* apply_uncertainties met no source id collision
NoCollision == WasApplied /\ sgroups.error # "InvalidFile"

\* C20: apply_uncertainties, when no source id collides, returns the source
\* groups with each perturbation of the path (a branch-set that is neither
\* sourceModel nor extendModel, with the value of the path's branch) applied
\* exactly once to every source the branch-set's filter matches and to no
\* other source, and the change count of each group is the number of
\* applications made in the group.
C20_PerturbsMatchingSourcesOnce ==
  NoCollision =>
    /\ sgroups.error = ""
    /\ \A i \in 1..Len(sgroups.src_groups) :
         /\ \A src \in Range(sgroups.src_groups[i].sources) :
              PerturbedOnce(sgroups.ltpath, src)
         /\ PerturbingBranches(sgroups.ltpath) # <<>>
              => sgroups.src_groups[i].changes
                   = Applications(sgroups.src_groups[i].sources, 1)

\* a perturbation filtered by source type on the path, and point sources
C20_Witness ==
  /\ NoCollision
  /\ \E k \in 1..Len(sgroups.ltpath) :
       /\ Perturbs(sgroups.ltpath[k])
       /\ "applyToSourceType" \in DOMAIN BranchSetOf(sgroups.ltpath[k]).filters
  /\ \E src \in AllSources(sgroups.src_groups) : src.type = "pointSource"
(***************************************************************************)
(* taxonomy_mapping.                                                       *)
(***************************************************************************)
\* taxonomy_mapping was called without a file, on an array of taxonomies
\* that begins with the placeholder
NoFileCall ==
  /\ tmap.filename = None
  /\ tmap.taxonomies # <<>>
  /\ tmap.taxonomies[1] = Unknown

\* C21: taxonomy_mapping called without a file, on taxonomies that begin
\* with the placeholder of the unknown taxonomy, reads no file and returns,
\* for every taxonomy, the list of the one pair (taxonomy, 1), the entry of
\* the placeholder first; when the taxonomies are the ones of id.csv, which
\* maps each taxonomy to itself, this is the list the call with that file
\* returns.
C21_NoFileIsIdentity ==
  NoFileCall =>
    /\ tmap.error = ""
    /\ tmap.reads = <<>>
    /\ Len(tmap.lst) = Len(tmap.taxonomies)
    /\ tmap.lst[1] = <<<<Unknown, WOne>>>>
    /\ \A i \in 1..Len(tmap.lst) :
         tmap.lst[i] = <<<<tmap.taxonomies[i], WOne>>>>
    /\ Range(Strip(tmap.taxonomies)) \subseteq {"RC", "MS"}
         => tmap.lst = taxonomy_mapping("id.csv", tmap.taxonomies).lst

\* the call of the scenario: the placeholder, then RC and MS
C21_Witness ==
  /\ NoFileCall
  /\ tmap.taxonomies = <<Unknown, "RC", "MS">>
  /\ tmap.lst = <<<<<<Unknown, WOne>>>>, <<<<"RC", WOne>>>>, <<<<"MS", WOne>>>>>>
(***************************************************************************)
(* Concurrent calls of sample_path.                                        *)
(***************************************************************************)
\* the path sample_path returns for the seed when no other call runs
AlonePath(s) ==
  sample_path(branches, bsets, root_branchset, s, 0).branches

\* C22: when two calls of sample_path run at the same time on the one
\* constructed tree, under every interleaving of their steps each call
\* returns the path it returns when it runs alone with its seed.
C22_ConcurrentSamplesAsAlone ==
  \A t \in Threads :
    threads[t].pc = "done" => threads[t].branches = AlonePath(threads[t].seed)

\* the two calls have returned, with different seeds
C22_Witness ==
  /\ \A t \in Threads : threads[t].pc = "done"
  /\ threads["t1"].seed # threads["t2"].seed
  /\ Len(threads["t1"].branches) >= 2
(***************************************************************************)
(* The shape of the constructed tree.                                      *)
(***************************************************************************)
\* the child branch-sets of the branches of the branch-sets of S
ChildrenOf(S) ==
  {BranchOf(branches, b).bset :
     b \in UNION {Range(bsets[bs].branches) : bs \in S}} \ {0}

\* the branch-sets reached from those of S in at most k steps along the
\* child references
RECURSIVE Reached(_, _)
Reached(S, k) ==
  IF k = 0 THEN S ELSE Reached(S \cup ChildrenOf(S), k - 1)

\* the branch-sets below the branch-set
Descendants(bs) == Reached(ChildrenOf({bs}), Len(bsets))

\* no branch-set that the root leads to is below itself
Acyclic ==
  \A bs \in {root_branchset} \cup Descendants(root_branchset) :
    bs \notin Descendants(bs)

\* C23: a constructed source-model tree is acyclic (from the root, the child
\* references never lead to a branch-set that is its own ancestor), full
\* enumeration ends without RecursionError and sample_path returns.
C23_ConstructedTreeIsAcyclic ==
  /\ phase = "constructed" => Acyclic
  /\ phase # "hung"
  /\ (out.op = "iter" /\ num_samples = 0) => ~out.raised

\* full enumeration of a constructed tree with a cycle has raised
C23_Witness ==
  /\ phase = "constructed"
  /\ ~Acyclic
  /\ out.op = "iter"
  /\ out.raised
\* the product of the numbers of branches of the branch-sets from the k-th on
RECURSIVE LevelProduct(_)
LevelProduct(k) ==
  IF k > Len(bsets) THEN 1
  ELSE Len(bsets[k].branches) * LevelProduct(k + 1)

\* full enumeration of the constructed tree has returned
FullyEnumerated ==
  /\ phase = "constructed"
  /\ num_samples = 0
  /\ out.op = "iter"
  /\ ~out.raised

\* C24: num_paths of a constructed source-model tree is the product of the
\* numbers of branches of its branching levels, and it is the number of
\* realizations that full enumeration yields.
C24_NumPathsCountsRealizations ==
  /\ phase = "constructed" => num_paths = LevelProduct(1)
  /\ FullyEnumerated => Len(out.rlzs) = num_paths

\* a tree of two levels of two branches, the second level below one branch
\* of the first only, enumerated
C24_Witness ==
  /\ FullyEnumerated
  /\ Len(bsets) = 2
  /\ num_paths = 4
  /\ Len(out.rlzs) = 3
(***************************************************************************)
(* The operations leave the tree as it is.                                 *)
(***************************************************************************)
\* an operation on the constructed source-model tree
SmOperation == Iter \/ Sample \/ ApplyUncertainties

\* an operation on the constructed GSIM tree
GsimOperation == GsimReduce \/ GsimCollapse \/ GsimIter \/ GsimNumPaths

\* the attributes of the GSIM tree: the branches with their weights, values
\* and effective flags, the values and the branch-set ids by type
gtreevars == <<gbranches, gvalues, gbsids, gtrts, bs_id_by_trt, gargs>>

\* an operation on the tree that reduce or collapse returned
OnView == gtree.op # None /\ (GsimIter \/ GsimNumPaths)

RecognisedTypes ==
  {"area", "point", "simpleFault", "complexFault", "characteristicFault"}

\* apply_uncertainties raised the AssertionError of filter_source for the
\* value
UnknownTypeRaised(value) ==
  sgroups.error = "unknown source type '" \o value \o "'"

\* C26: every applyToSourceType of a constructed tree (a source type found in
\* the source models scanned) is one of the values filter_source knows, and
\* apply_uncertainties on a constructed tree never raises the AssertionError
\* "unknown source type".
C26_ValidatedSourceTypesAreRecognised ==
  /\ phase = "constructed"
       => \A k \in 1..Len(bsets) :
            "applyToSourceType" \in DOMAIN bsets[k].filters
              => bsets[k].filters["applyToSourceType"] \in RecognisedTypes
  /\ \A value \in source_types : ~UnknownTypeRaised(value)

\* apply_uncertainties was called on a path through a branch-set whose
\* applyToSourceType passed validate_filters
C26_Witness ==
  /\ WasApplied
  /\ \E k \in 1..Len(sgroups.ltpath) :
       /\ Perturbs(sgroups.ltpath[k])
       /\ "applyToSourceType" \in DOMAIN BranchSetOf(sgroups.ltpath[k]).filters
       /\ BranchSetOf(sgroups.ltpath[k]).filters["applyToSourceType"]
            \in source_types
  /\ UnknownTypeRaised("pointSource")
\* the number of sources of the groups from the i-th on
RECURSIVE SourceCount(_, _)
SourceCount(groups, i) ==
  IF i > Len(groups) THEN 0
  ELSE Len(groups[i].sources) + SourceCount(groups, i + 1)

\* the source ids of the file are distinct
DistinctIn(fname) ==
  SourceCount(read_source_models(fname), 1)
    = Cardinality(SourceIdsOf(read_source_models(fname)))

\* the positions of the path that select a branch of an extendModel
\* branch-set
Extensions(ltpath) ==
  {k \in 1..Len(ltpath) : InKind(ltpath[k], "extendModel")}

\* apply_uncertainties returned source groups
AppliedOk == WasApplied /\ sgroups.error = ""

\* C27: when the source ids of the base file and of every extension are
\* distinct within the file and apply_uncertainties returns, the source ids
\* of the groups returned are pairwise distinct, also when the path selects
\* branches of more than one extendModel branch-set.
C27_ReturnedIdsAreDistinct ==
  (/\ AppliedOk
   /\ DistinctIn(sgroups.fname)
   /\ \A k \in Extensions(sgroups.ltpath) :
        DistinctIn(BranchOf(branches, sgroups.ltpath[k]).value.text))
    => SourceCount(sgroups.src_groups, 1)
         = Cardinality(SourceIdsOf(sgroups.src_groups))

\* apply_uncertainties returned on a path through two extendModel
\* branch-sets
C27_Witness ==
  /\ AppliedOk
  /\ Cardinality(Extensions(sgroups.ltpath)) = 2
(***************************************************************************)
(* The paths that sampling can return.                                     *)
(***************************************************************************)
\* every seed up to the generator's number of states: numpy.random.seed
\* leaves the generator in a state that the seed determines, and these seeds
\* give every state
EverySeed == 0..(RngMod - 1)

\* every branch of the path has a positive weight
PositivePath(p) ==
  \A k \in 1..Len(p) : BranchOf(branches, p[k]).weight > 0

\* sample_path returns the path for some seed
Sampleable(p) ==
  \E s \in EverySeed :
    sample_path(branches, bsets, root_branchset, s, rng).branches = p

\* C28: for every root-to-leaf path of a constructed (acyclic) tree whose
\* branches all have a positive weight there is a seed for which sample_path
\* returns exactly that path.
C28_EveryPathIsSampled ==
  (phase = "constructed" /\ Acyclic)
    => \A p \in Paths : PositivePath(p) => Sampleable(p)

\* sample_path was called on a tree of two levels of two branches of weight
\* 0.5 each and returned the first branch of each, which it does when the
\* draw is below 0.5
C28_Witness ==
  /\ phase = "constructed"
  /\ Acyclic
  /\ Len(bsets) = 2
  /\ WeightsOf(1) = <<10, 10>>
  /\ WeightsOf(2) = <<10, 10>>
  /\ out.op = "sample"
  /\ out.path = <<bsets[1].branches[1], bsets[2].branches[1]>>
  /\ ~Sampleable(<<bsets[1].branches[1], bsets[2].branches[2]>>)
(***************************************************************************)
(* The effective realizations of a GSIM tree.                              *)
(***************************************************************************)
\* get_effective_rlzs returned, on the tree that reduce returned
EffectiveOfReduced ==
  /\ gphase = "constructed"
  /\ gtree.op = "reduce"
  /\ gout.op = "get_effective_rlzs"

\* the sum of the components of the weights of the realizations for the
\* key, from the i-th on, in units of 1 / d
RECURSIVE KeySum(_, _, _)
KeySum(rlzs, key, i) ==
  IF i > Len(rlzs) THEN 0
  ELSE ImtWeight_getitem(rlzs[i].weight.dic, key) + KeySum(rlzs, key, i + 1)

\* the weights of the realizations sum to 1 for the default key and for PGA
\* (no realization: the sum is 0)
SumToOnes(rlzs) ==
  /\ Len(rlzs) > 0
  /\ \A key \in {"weight", "PGA"} : KeySum(rlzs, key, 1) = rlzs[1].weight.d

RECURSIVE SamplesSum(_, _)
SamplesSum(rlzs, i) ==
  IF i > Len(rlzs) THEN 0 ELSE rlzs[i].samples + SamplesSum(rlzs, i + 1)

\* the number of realizations enumerated that are not all placeholders
NotEmptyCount(rlzs) ==
  Cardinality({i \in 1..Len(rlzs) : ~EmptyRlz(rlzs[i])})

\* C29: on a GSIM tree that reduce returned, get_effective_rlzs of the
\* realizations enumerated yields get_num_paths() realizations, with the
\* ordinals 0, 1, 2, ..., whose weights sum to 1 for every key and whose
\* multiplicities sum to the number of the realizations enumerated that are
\* not made of placeholders only.
C29_EffectiveRlzsMatchNumPaths ==
  EffectiveOfReduced =>
    /\ Len(gout.rlzs) = get_num_paths(gtree.branches)
    /\ \A i \in 1..Len(gout.rlzs) : gout.rlzs[i].ordinal = i - 1
    /\ SumToOnes(gout.rlzs)
    /\ SamplesSum(gout.rlzs, 1)
         = NotEmptyCount(gsim_iter(gtree.branches, gvalues))

\* two groups of two branches reduced to the type of the first: two
\* effective realizations of two enumerated realizations each
C29_Witness ==
  /\ EffectiveOfReduced
  /\ TwoByTwo(gbranches)
  /\ gtree.arg = {gbranches[1].trt}
  /\ Len(gout.rlzs) = 2
  /\ gout.rlzs[1].samples = 2
  /\ gout.rlzs[2].ordinal = 1
====
